---- MODULE Spec2Model ----
(***************************************************************************)
(* State-machine model of the codex-acp agent: the session store, the FS   *)
(* bridge, the top-level dispatcher (main.rs) and the prompt event loop.   *)
(***************************************************************************)
EXTENDS Integers, Sequences, FiniteSets, TLC

(***************************************************************************)
(* Bounds of the model.                                                    *)
(***************************************************************************)
\* Longest request path, in components, given to the bridge.
MaxPathLen == 3
\* Most bridge requests accepted in one run.
MaxBridgeReqs == 1
\* Most events the backend emits in one run.
MaxEvents == 3
\* Most events waiting in the conversation's event queue.
MaxQueue == 1
\* Most instructions in one multi_edit_text_file call.
MaxEdits == 2
\* Most tools/call requests the MCP server serves in one run.
MaxToolCalls == 2
\* Calls made on a ReasoningAggregator.
MaxAggCalls == 6
\* Most /new commands of the session.
MaxNew == 2
\* Lines of the file that read_text_file reads, and the largest limit asked.
MaxFileLines == 3
MaxReadLimit == 2
\* The byte cap of read_text_file in the paging specification, scaled to
\* the line lengths drawn there (MAX_READ_BYTES is 50 KiB).
PageCap == 3

(***************************************************************************)
(* Fixed universes.                                                        *)
(***************************************************************************)
SessionIds == {"s1", "s2"}
FsIds == {"f1", "f2"}
UnknownId == "zz"
BridgeTasks == {"b1", "b2"}
\* The task serving session/prompt.
PromptTask == "p1"

\* codex_common::approval_presets::builtin_approval_presets (ids as in
\* commands.rs, the "allowed" list of /approvals).
APPROVAL_PRESETS ==
  << [id |-> "read-only",   approval |-> "on-request", sandbox |-> "read-only"],
     [id |-> "auto",        approval |-> "on-request", sandbox |-> "workspace-write"],
     [id |-> "full-access", approval |-> "never",      sandbox |-> "danger-full-access"] >>

PresetIds == {APPROVAL_PRESETS[i].id : i \in DOMAIN APPROVAL_PRESETS}

\* Base configurations the process may be started with: each preset pair and
\* one pair that matches no preset.
ConfigChoices ==
  {[approval |-> APPROVAL_PRESETS[i].approval, sandbox |-> APPROVAL_PRESETS[i].sandbox] :
      i \in DOMAIN APPROVAL_PRESETS}
  \cup {[approval |-> "never", sandbox |-> "read-only"]}

WorkspaceRoots == {<< >>, <<"w">>, <<"h", "w">>}

NoContent == "<none>"
Contents == {"x"}

VARIABLES
  config,          \* CodexAgent.config: the base (approval, sandbox) pair
  workspace_root,  \* FsBridgeInner.workspace_root, an absolute path (components)
  sessions,        \* CodexAgent.sessions: session id -> SessionState
  bridge,          \* per bridge connection task: position, request, last response
  bridgeCount,     \* number of bridge requests accepted so far
  client_rx,       \* the client-op channel (FIFO)
  response,        \* the oneshot reply channel of each waiting task
  disp,            \* the dispatcher loop of main.rs: position, current op and
                   \* the request it has forwarded to the ACP client
  disk,            \* the last local-disk access made by the bridge fallback
  lastDispatch,    \* what the dispatcher did with the last file client-op
  turn_context,    \* per session: the last policy override the backend received
  modeCalls,       \* set_session_mode calls between their submit and their commit
  cmdTask,         \* per session: the task new_session spawns to advertise commands
  new_session_response, \* per session: whether new_session has returned its
                   \* NewSessionResponse to the ACP connection that called it
  rx,              \* the session-update channel (FIFO) read by the dispatcher
  ack,             \* the oneshot ack channel of each update producer
  sent,            \* number of notifications enqueued on the update channel
  written,         \* the number of the last notification written to the ACP connection
  events,          \* the conversation's event queue (next_event takes its head)
  emitted,         \* number of events the backend has emitted
  backend,         \* the backend conversation: closed, interrupted, ...
  p,               \* the prompt task: position and locals of CodexAgent::prompt
  approvals,       \* approval requests taken up and approval ops submitted
  tools,           \* per tool-call id: the status last announced to the client
  staged_edits,    \* MCP server: the staged content of the path (StagedEdits)
  mcpFile,         \* the content of the path's file behind the bridge
  mcpCalls,        \* number of tools/call requests the MCP server has served
  lastEdit,        \* the tools/call request being answered, with what it did
  ctxCalls,        \* set_session_mode / set_session_model calls in flight
  lastOverride,    \* the last OverrideTurnContext op submitted, with its session
  sessions_borrow, \* the borrow state of the RefCell that holds the session map
  reason,          \* the prompt's ReasoningAggregator: sections and current
  thoughts,        \* the texts of the thought chunks the prompt has enqueued
  reasonCase,      \* the reasoning deltas taken and the final text repeating them
  aggLog,          \* calls made on a ReasoningAggregator: the texts appended
                   \* between breaks, the last call and what it returned
  readLog,         \* the last read_text_file call of the MCP server: the
                   \* file, the arguments and the result
  overrideResponse, \* the set_session_mode / set_session_model call that took
                   \* the last step: its arguments and what it returned
  pageLog,         \* a reader following the paging metadata of
                   \* read_text_file: the file, the next call's arguments and
                   \* the file text returned so far
  convLog,         \* one session under the /new command: its state, the
                   \* conversations the manager created and the conversation
                   \* the last operation was submitted to
  authLog,         \* the provider configuration, the auth methods that
                   \* initialize advertised and the last authenticate call
  messageLog,      \* assistant messages of the turn: the text streamed by the
                   \* backend and by the prompt since the last AgentMessage,
                   \* and the AgentMessage events taken and not delivered
  mcpRequests,     \* MCP server: the tools/call requests taken from stdin
  mcpStdout,       \* MCP server: the responses written to stdout
  mcpRunning,      \* MCP server: serve_loop has not returned
  inFlight,        \* bridge: the writes still carried for requests the MCP
                   \* server gave up waiting for
  loops            \* two prompts of one session: the position of each, its
                   \* submission id and the events of it that another loop took

storeVars == <<config, sessions, turn_context, modeCalls>>
bridgeVars == <<workspace_root, bridge, bridgeCount, disk>>
chanVars == <<client_rx, response, disp>>
fileLogVars == <<lastDispatch>>
taskVars == <<cmdTask, new_session_response>>
notifVars == <<rx, ack, sent, written>>
promptVars == <<events, emitted, backend, p, approvals>>
toolVars == <<tools>>
\* The state of the components that the first specifications leave alone.
editVars == <<staged_edits, mcpFile, mcpCalls, lastEdit>>
ctxVars == <<ctxCalls, lastOverride>>
borrowVars == <<sessions_borrow>>
reasonVars == <<reason, thoughts, reasonCase>>
unitVars == <<aggLog, readLog, loops, overrideResponse, messageLog, pageLog, authLog, convLog>>
serveVars == <<mcpRequests, mcpStdout, mcpRunning, inFlight>>
extVars == <<toolVars, editVars, ctxVars, borrowVars, reasonVars, unitVars, serveVars>>

(***************************************************************************)
(* Session store (agent/session.rs).                                       *)
(***************************************************************************)
NoneId == "<none>"

\* find(|preset| preset.approval == config.approval_policy && ...).map(id)
current_mode_id_for_config(cfg) ==
  LET hits == {i \in DOMAIN APPROVAL_PRESETS :
                 /\ APPROVAL_PRESETS[i].approval = cfg.approval
                 /\ APPROVAL_PRESETS[i].sandbox = cfg.sandbox}
  IN IF hits = {} THEN NoneId
     ELSE APPROVAL_PRESETS[CHOOSE i \in hits : \A j \in hits : i <= j].id

\* find_preset_by_mode_id: index of the first preset with that id, 0 if none.
find_preset_by_mode_id(mode_id) ==
  LET hits == {i \in DOMAIN APPROVAL_PRESETS : APPROVAL_PRESETS[i].id = mode_id}
  IN IF hits = {} THEN 0 ELSE CHOOSE i \in hits : \A j \in hits : i <= j

\* A faulty variant: the preset id is misspelt, so no mode is read-only.
is_read_only_mode_typo(mode_id) == mode_id = "readonly"

is_read_only_mode(mode_id) == mode_id = "read-only"

\* SessionModeLookup::current_mode: by key first, then by fs_session_id.
current_mode(session_id) ==
  IF session_id \in DOMAIN sessions THEN sessions[session_id].current_mode
  ELSE LET owners == {k \in DOMAIN sessions : sessions[k].fs_session_id = session_id}
       IN IF owners = {} THEN NoneId
          ELSE sessions[CHOOSE k \in owners : TRUE].current_mode

\* SessionModeLookup::is_read_only: unwrap_or(false).
is_read_only(session_id) ==
  LET m == current_mode(session_id)
  IN IF m = NoneId THEN FALSE ELSE is_read_only_mode(m)

\* A faulty variant: only the keys of the store are looked up.
resolve_acp_session_id_keys_only(session_id) ==
  IF session_id \in DOMAIN sessions THEN session_id ELSE NoneId

\* SessionModeLookup::resolve_acp_session_id.
resolve_acp_session_id(session_id) ==
  IF session_id \in DOMAIN sessions THEN session_id
  ELSE LET owners == {k \in DOMAIN sessions : sessions[k].fs_session_id = session_id}
       IN IF owners = {} THEN NoneId ELSE CHOOSE k \in owners : TRUE

\* ModelContext::from_config(config): the model id ("provider@model") and
\* the reasoning effort of the base configuration.
ConfigModel == [model |-> "openai@m0", effort |-> "medium"]

\* SessionState::new(fs_session_id, conversation, config, current_mode).
SessionState_new(fs_session_id, cfg, mode) ==
  [fs_session_id    |-> fs_session_id,
   current_approval |-> cfg.approval,
   current_sandbox  |-> cfg.sandbox,
   current_mode     |-> mode,
   current_model    |-> ConfigModel.model,
   current_effort   |-> ConfigModel.effort]

\* A faulty variant: new_session suspends once more after spawning the
\* task, so that the step which spawns it does not return the response.
new_session_suspending_after_spawn(sid, fsid) ==
  /\ sid \in SessionIds \ DOMAIN sessions
  /\ fsid \in FsIds \ {sessions[k].fs_session_id : k \in DOMAIN sessions}
  /\ LET m == current_mode_id_for_config(config)
         mode == IF m = NoneId THEN "auto" ELSE m
     IN sessions' = [k \in DOMAIN sessions \cup {sid} |->
                       IF k = sid THEN SessionState_new(fsid, config, mode)
                       ELSE sessions[k]]
  /\ turn_context' = [k \in DOMAIN sessions \cup {sid} |->
                        IF k = sid THEN config ELSE turn_context[k]]
  /\ cmdTask' = [cmdTask EXCEPT ![sid] = "spawned"]
  /\ UNCHANGED <<config, modeCalls, new_session_response>>

\* new_session (sessions.rs 14-98) from its last suspension point, the
\* creation of the conversation, to its return: a fresh conversation id and
\* a fresh fs_session_id (two UUIDs); the mode is the preset matching the
\* config, or "auto"; the backend conversation is created with the session
\* config's policies; the session is inserted; the task that advertises the
\* commands is spawned on the local task set, where it first runs when the
\* running task has suspended or ended; the response is built and returned.
new_session(sid, fsid) ==
  /\ sid \in SessionIds \ DOMAIN sessions
  /\ fsid \in FsIds \ {sessions[k].fs_session_id : k \in DOMAIN sessions}
  /\ LET m == current_mode_id_for_config(config)
         mode == IF m = NoneId THEN "auto" ELSE m
     IN sessions' = [k \in DOMAIN sessions \cup {sid} |->
                       IF k = sid THEN SessionState_new(fsid, config, mode)
                       ELSE sessions[k]]
  /\ turn_context' = [k \in DOMAIN sessions \cup {sid} |->
                        IF k = sid THEN config ELSE turn_context[k]]
  /\ cmdTask' = [cmdTask EXCEPT ![sid] = "spawned"]
  /\ new_session_response' = [new_session_response EXCEPT ![sid] = "returned"]
  /\ UNCHANGED <<config, modeCalls>>

\* set_session_mode up to the end of conversation.submit(op).await inside
\* apply_context_override: the preset is found, the session exists, and the
\* override with the preset's pair has been handed to the backend.  The
\* model keeps at most one such call in flight.
set_session_mode_submit(sid, mode_id) ==
  /\ modeCalls = {}
  /\ sid \in DOMAIN sessions
  /\ find_preset_by_mode_id(mode_id) # 0
  /\ LET preset == APPROVAL_PRESETS[find_preset_by_mode_id(mode_id)]
     IN turn_context' = [turn_context EXCEPT ![sid] =
                           [approval |-> preset.approval, sandbox |-> preset.sandbox]]
  /\ modeCalls' = modeCalls \cup {[session_id |-> sid, mode_id |-> mode_id]}
  /\ UNCHANGED <<config, sessions>>

\* The rest of apply_context_override: with_session_state_mut(update_state).
set_session_mode_commit(call) ==
  /\ call \in modeCalls
  /\ LET preset == APPROVAL_PRESETS[find_preset_by_mode_id(call.mode_id)]
     IN sessions' = [sessions EXCEPT ![call.session_id] =
                       [@ EXCEPT !.current_approval = preset.approval,
                                 !.current_sandbox = preset.sandbox,
                                 !.current_mode = call.mode_id]]
  /\ modeCalls' = modeCalls \ {call}
  /\ UNCHANGED <<config, turn_context>>

(***************************************************************************)
(* The RefCell around the session map (CodexAgent.sessions,                *)
(* Rc<RefCell<HashMap<String, SessionState>>>): the number of shared       *)
(* borrows alive, whether the exclusive borrow is alive, and whether a     *)
(* borrow has panicked (BorrowError / BorrowMutError).  A state of the     *)
(* model is a suspension point of the tasks, so the value of               *)
(* sessions_borrow is what a task resumed at that point finds.             *)
(***************************************************************************)
Unborrowed == [readers |-> 0, writer |-> FALSE, panicked |-> FALSE]

InitBorrow == sessions_borrow = Unborrowed

\* RefCell::borrow and the drop of the Ref it returns.
borrow(cell) ==
  IF cell.panicked THEN cell
  ELSE IF cell.writer THEN [cell EXCEPT !.panicked = TRUE]
  ELSE [cell EXCEPT !.readers = @ + 1]

drop_Ref(cell) ==
  IF cell.panicked THEN cell ELSE [cell EXCEPT !.readers = @ - 1]

\* RefCell::borrow_mut and the drop of the RefMut it returns.
borrow_mut(cell) ==
  IF cell.panicked THEN cell
  ELSE IF cell.writer \/ cell.readers > 0 THEN [cell EXCEPT !.panicked = TRUE]
  ELSE [cell EXCEPT !.writer = TRUE]

drop_RefMut(cell) ==
  IF cell.panicked THEN cell ELSE [cell EXCEPT !.writer = FALSE]

\* core.rs 71-77 (get_conversation) and 176-187 (apply_context_override):
\* a block that borrows the map, clones what it needs and ends.
read_block(cell) == drop_Ref(borrow(cell))

\* A faulty variant: the exclusive borrow outlives the step that took it.
with_session_state_mut_cell_held(cell) == borrow_mut(cell)

\* core.rs 145-156: with_session_state_mut, a function without a
\* suspension point; the RefMut is dropped when it returns.
with_session_state_mut_cell(cell) == drop_RefMut(borrow_mut(cell))

\* sessions.rs 49-57: self.sessions.borrow_mut().insert(..), a statement.
insert_statement(cell) == drop_RefMut(borrow_mut(cell))

(***************************************************************************)
(* Context overrides (agent/core.rs apply_context_override, called by      *)
(* set_session_mode and set_session_model in agent/sessions.rs), step by   *)
(* step: the context is read and the op built; conversation.submit hands   *)
(* the op to the backend; the session state is updated.                    *)
(***************************************************************************)
NoModel == [model |-> "<none>", effort |-> "<none>"]

\* session::parse_and_validate_model: the config's own model, or a
\* provider@model pair of a profile with the profile's effort; None for
\* anything else.
Profiles == {[model |-> "acme@m1", effort |-> "high"]}
ModelIds == {ConfigModel.model, "acme@m1", "bogus"}

parse_and_validate_model(model_id) ==
  IF model_id = ConfigModel.model THEN ConfigModel
  ELSE IF \E pr \in Profiles : pr.model = model_id
  THEN CHOOSE pr \in Profiles : pr.model = model_id
  ELSE NoModel

NoOverride ==
  [session_id |-> NoneId, approval |-> "<none>", sandbox |-> "<none>",
   model |-> "<none>", effort |-> "<none>"]

InitCtx ==
  /\ ctxCalls = {}
  /\ lastOverride = NoOverride

\* core.rs 176-187: SessionContext read from the session state.
SessionContext(state) ==
  [approval |-> state.current_approval, sandbox |-> state.current_sandbox,
   model |-> state.current_model, effort |-> state.current_effort]

\* sessions.rs 153-160: the op of set_session_mode.
mode_override(sid, ctx, preset) ==
  [session_id |-> sid, approval |-> preset.approval, sandbox |-> preset.sandbox,
   model |-> ctx.model, effort |-> ctx.effort]

\* sessions.rs 192-199: the op of set_session_model.
model_override(sid, ctx, model_ctx) ==
  [session_id |-> sid, approval |-> ctx.approval, sandbox |-> ctx.sandbox,
   model |-> model_ctx.model, effort |-> model_ctx.effort]

\* set_session_mode up to the first suspension point of
\* apply_context_override: the preset is found (else invalid-params), the
\* context is read (else "session not found"), the op is built and
\* get_conversation reads the cached conversation (new_session stores one
\* with every session), each read in a block of its own.  The model keeps
\* at most one call of each kind in flight.
set_session_mode_begin(sid, mode_id) ==
  /\ \A c \in ctxCalls : c.kind # "mode"
  /\ find_preset_by_mode_id(mode_id) # 0
  /\ sid \in DOMAIN sessions
  /\ ctxCalls' = ctxCalls \cup
       {[kind |-> "mode", session_id |-> sid, mode_id |-> mode_id,
         model_ctx |-> NoModel, pc |-> "built",
         op |-> mode_override(sid, SessionContext(sessions[sid]),
                              APPROVAL_PRESETS[find_preset_by_mode_id(mode_id)])]}
  /\ sessions_borrow' = read_block(read_block(sessions_borrow))
  /\ UNCHANGED <<config, sessions, turn_context, modeCalls, lastOverride>>

\* set_session_model up to the same point.
set_session_model_begin(sid, model_id) ==
  /\ \A c \in ctxCalls : c.kind # "model"
  /\ parse_and_validate_model(model_id) # NoModel
  /\ sid \in DOMAIN sessions
  /\ ctxCalls' = ctxCalls \cup
       {[kind |-> "model", session_id |-> sid, mode_id |-> NoneId,
         model_ctx |-> parse_and_validate_model(model_id), pc |-> "built",
         op |-> model_override(sid, SessionContext(sessions[sid]),
                               parse_and_validate_model(model_id))]}
  /\ sessions_borrow' = read_block(read_block(sessions_borrow))
  /\ UNCHANGED <<config, sessions, turn_context, modeCalls, lastOverride>>

\* core.rs 190-195: get_conversation(..).await?.submit(op).await.  On an
\* error the call returns it and the state is left alone.
apply_context_override_submit(call, ok) ==
  /\ call \in ctxCalls
  /\ call.pc = "built"
  /\ IF ok
     THEN /\ lastOverride' = call.op
          /\ turn_context' = [turn_context EXCEPT ![call.session_id] =
                                [approval |-> call.op.approval,
                                 sandbox |-> call.op.sandbox]]
          /\ ctxCalls' = (ctxCalls \ {call}) \cup {[call EXCEPT !.pc = "submitted"]}
     ELSE /\ ctxCalls' = ctxCalls \ {call}
          /\ UNCHANGED <<lastOverride, turn_context>>
  /\ UNCHANGED <<config, sessions, modeCalls, sessions_borrow>>

\* A faulty variant: set_session_model's update also resets the mode.
update_state_resetting_mode(call, state) ==
  IF call.kind = "mode"
  THEN [state EXCEPT
          !.current_approval = APPROVAL_PRESETS[find_preset_by_mode_id(call.mode_id)].approval,
          !.current_sandbox = APPROVAL_PRESETS[find_preset_by_mode_id(call.mode_id)].sandbox,
          !.current_mode = call.mode_id]
  ELSE [state EXCEPT !.current_model = call.model_ctx.model,
                     !.current_effort = call.model_ctx.effort,
                     !.current_mode = "auto"]

\* The update_state closures: sessions.rs 161-165 (mode) and 200-202 with
\* SessionState::set_model, session.rs 303-306 (model).
update_state(call, state) ==
  IF call.kind = "mode"
  THEN [state EXCEPT
          !.current_approval = APPROVAL_PRESETS[find_preset_by_mode_id(call.mode_id)].approval,
          !.current_sandbox = APPROVAL_PRESETS[find_preset_by_mode_id(call.mode_id)].sandbox,
          !.current_mode = call.mode_id]
  ELSE [state EXCEPT !.current_model = call.model_ctx.model,
                     !.current_effort = call.model_ctx.effort]

\* core.rs 197-200: with_session_state_mut(session_id, update_state).
apply_context_override_commit(call) ==
  /\ call \in ctxCalls
  /\ call.pc = "submitted"
  /\ sessions_borrow' = with_session_state_mut_cell(sessions_borrow)
  /\ sessions' = IF sessions_borrow'.panicked THEN sessions
                 ELSE [sessions EXCEPT ![call.session_id] = update_state(call, @)]
  /\ ctxCalls' = ctxCalls \ {call}
  /\ UNCHANGED <<config, turn_context, modeCalls, lastOverride>>

\* What a set_session_mode or set_session_model call returned: the
\* request, the error code ("pending" while the call is suspended, "ok"
\* for the default response) and the error's data.
NoResponse ==
  [kind |-> "<none>", session_id |-> NoneId, arg |-> "<none>",
   code |-> "<none>", data |-> "<none>"]

InitOverrideResponse == overrideResponse = NoResponse

\* stream: the deltas the backend has emitted for the message it is
\* producing; chunks: the delta chunks the prompt has sent since the last
\* AgentMessage it took; taken, lost: the AgentMessage events with the
\* submit id the prompt has taken, and those of them whose text was neither
\* sent as a chunk nor equal to the chunks streamed for it.
NoMessageLog == [stream |-> << >>, chunks |-> << >>, taken |-> 0, lost |-> 0]

InitMessageLog == messageLog = NoMessageLog

OverrideResponse(kind, sid, arg, code, data) ==
  [kind |-> kind, session_id |-> sid, arg |-> arg, code |-> code, data |-> data]

\* A faulty variant: the override is handed to the backend before the mode
\* id is looked up.
set_session_mode_submitting_first(sid, mode_id) ==
  IF find_preset_by_mode_id(mode_id) = 0
  THEN /\ overrideResponse' =
            OverrideResponse("mode", sid, mode_id, "invalid_params", "invalid mode id")
       /\ lastOverride' = [NoOverride EXCEPT !.session_id = sid]
       /\ UNCHANGED <<config, sessions, turn_context, modeCalls, ctxCalls,
                      sessions_borrow>>
  ELSE IF sid \notin DOMAIN sessions
  THEN /\ overrideResponse' =
            OverrideResponse("mode", sid, mode_id, "invalid_params", "session not found")
       /\ sessions_borrow' = read_block(sessions_borrow)
       /\ UNCHANGED <<config, sessions, turn_context, modeCalls, ctxCalls,
                      lastOverride>>
  ELSE /\ set_session_mode_begin(sid, mode_id)
       /\ overrideResponse' = OverrideResponse("mode", sid, mode_id, "pending", "<none>")

\* sessions.rs 144-170 with core.rs 176-187: set_session_mode from its entry
\* to its first suspension point or its early return.  An unknown mode id
\* returns invalid-params before anything is read; an unknown session
\* returns invalid-params from the block that reads the context.
set_session_mode(sid, mode_id) ==
  IF find_preset_by_mode_id(mode_id) = 0
  THEN /\ overrideResponse' =
            OverrideResponse("mode", sid, mode_id, "invalid_params", "invalid mode id")
       /\ UNCHANGED <<config, sessions, turn_context, modeCalls, ctxCalls,
                      lastOverride, sessions_borrow>>
  ELSE IF sid \notin DOMAIN sessions
  THEN /\ overrideResponse' =
            OverrideResponse("mode", sid, mode_id, "invalid_params", "session not found")
       /\ sessions_borrow' = read_block(sessions_borrow)
       /\ UNCHANGED <<config, sessions, turn_context, modeCalls, ctxCalls,
                      lastOverride>>
  ELSE /\ set_session_mode_begin(sid, mode_id)
       /\ overrideResponse' = OverrideResponse("mode", sid, mode_id, "pending", "<none>")

\* sessions.rs 177-207 with core.rs 176-187: set_session_model likewise.
set_session_model(sid, model_id) ==
  IF parse_and_validate_model(model_id) = NoModel
  THEN /\ overrideResponse' =
            OverrideResponse("model", sid, model_id, "invalid_params",
                             "invalid model id format or provider/model not found")
       /\ UNCHANGED <<config, sessions, turn_context, modeCalls, ctxCalls,
                      lastOverride, sessions_borrow>>
  ELSE IF sid \notin DOMAIN sessions
  THEN /\ overrideResponse' =
            OverrideResponse("model", sid, model_id, "invalid_params", "session not found")
       /\ sessions_borrow' = read_block(sessions_borrow)
       /\ UNCHANGED <<config, sessions, turn_context, modeCalls, ctxCalls,
                      lastOverride>>
  ELSE /\ set_session_model_begin(sid, model_id)
       /\ overrideResponse' = OverrideResponse("model", sid, model_id, "pending", "<none>")

\* core.rs 190-195 and its caller's `.await?`: a failed submit is returned
\* as an internal error (acp::Error::from(anyhow!(e))).
apply_context_override_submitted(call, ok) ==
  /\ apply_context_override_submit(call, ok)
  /\ overrideResponse' =
       IF ok
       THEN OverrideResponse(call.kind, call.session_id, "<none>", "pending", "<none>")
       ELSE OverrideResponse(call.kind, call.session_id, "<none>", "internal_error",
                             "submit failed")

\* core.rs 197-202 and sessions.rs 170 / 207: the state is updated and the
\* default response returned.
apply_context_override_returned(call) ==
  /\ apply_context_override_commit(call)
  /\ overrideResponse' =
       OverrideResponse(call.kind, call.session_id, "<none>", "ok", "<none>")

(***************************************************************************)
(* Paths (fs/bridge.rs).  A path is a flag and its components; an absolute *)
(* path with no components is the root.                                    *)
(***************************************************************************)
PathComps == {"..", ".", "a"}

RECURSIVE SeqsUpTo(_, _)
SeqsUpTo(S, n) ==
  IF n = 0 THEN {<< >>}
  ELSE LET shorter == SeqsUpTo(S, n - 1)
       IN shorter \cup {Append(s, x) : s \in {t \in shorter : Len(t) = n - 1}, x \in S}

PopLast(s) == SubSeq(s, 1, Len(s) - 1)

\* The loop of resolve_path over the components of a relative path:
\* CurDir is skipped, ParentDir pops (PathBuf::pop is false at the root),
\* Normal pushes.
RECURSIVE resolve_components(_, _)
resolve_components(resolved, comps) ==
  IF comps = << >> THEN [ok |-> TRUE, path |-> resolved, error |-> ""]
  ELSE LET c == Head(comps)
       IN IF c = "." THEN resolve_components(resolved, Tail(comps))
          ELSE IF c = ".."
               THEN IF resolved = << >>
                    THEN [ok |-> FALSE, path |-> << >>,
                          error |-> "path escapes workspace root"]
                    ELSE resolve_components(PopLast(resolved), Tail(comps))
               ELSE resolve_components(Append(resolved, c), Tail(comps))

\* FsBridgeInner::resolve_path: an absolute candidate is returned as it is.
resolve_path(root, path) ==
  IF path.abs THEN [ok |-> TRUE, path |-> path.comps, error |-> ""]
  ELSE resolve_components(root, path.comps)

(***************************************************************************)
(* Client ops and oneshot replies.                                         *)
(***************************************************************************)
NoPath == [abs |-> FALSE, comps |-> << >>]

\* An empty oneshot channel, and the values a sender may put into it.
NoReply == [state |-> "empty", ok |-> FALSE, code |-> "", data |-> "", content |-> ""]
OkReply(content) ==
  [state |-> "sent", ok |-> TRUE, code |-> "", data |-> "", content |-> content]
ErrReply(code, data) ==
  [state |-> "sent", ok |-> FALSE, code |-> code, data |-> data, content |-> ""]
\* The sender was dropped without sending (rx.await yields RecvError).
DroppedReply == [state |-> "dropped", ok |-> FALSE, code |-> "", data |-> "", content |-> ""]

NoOp == [kind |-> "none", n |-> 0, from |-> "", session_id |-> NoneId,
         path |-> << >>, content |-> NoContent]

NoFwd == [kind |-> "none", session_id |-> NoneId, path |-> << >>, content |-> NoContent]

\* A notification of the update channel: its number in enqueue order, the
\* producer holding the ack receiver, the session and the update.
NoNotif == [n |-> 0, from |-> "", session_id |-> NoneId, update |-> "none"]

IdleDisp == [pc |-> "select", op |-> NoOp, fwd |-> NoFwd, notif |-> NoNotif]

(***************************************************************************)
(* FS bridge (fs/bridge.rs): one task per accepted connection.             *)
(***************************************************************************)
NoReq == [n |-> 0, session_id |-> NoneId, op |-> "none", path |-> NoPath,
          content |-> NoContent]
NoResp == [n |-> 0, success |-> FALSE, content |-> NoContent, error |-> ""]

NoDisk == [n |-> 0, op |-> "none", path |-> << >>, content |-> NoContent,
           ok |-> FALSE, ro |-> FALSE]

IdleBridge == [pc |-> "idle", req |-> NoReq, resolved |-> << >>, resp |-> NoResp,
               roSince |-> FALSE]

\* Whether the request's session id names a session of the store that is in
\* read-only mode now (by key or by fs_session_id).
SessionIsReadOnlyNow(id) ==
  \E k \in DOMAIN sessions :
     /\ (k = id \/ sessions[k].fs_session_id = id)
     /\ sessions[k].current_mode = "read-only"

\* FsBridgeInner::handle_request up to its first suspension: resolve the
\* path, reject a write without content, else send the client op
\* (read_via_client / write_via_client) and wait for the reply.
handle_request(t, req) ==
  LET r == resolve_path(workspace_root, req.path)
      n == bridgeCount + 1
      rq == [req EXCEPT !.n = n]
  IN /\ bridge[t].pc = "idle"
     /\ bridgeCount < MaxBridgeReqs
     /\ bridgeCount' = n
     /\ IF ~r.ok
        THEN /\ bridge' = [bridge EXCEPT ![t] =
                  [IdleBridge EXCEPT
                     !.resp = [n |-> n, success |-> FALSE, content |-> NoContent,
                               error |-> r.error]]]
             /\ UNCHANGED <<client_rx, response>>
        ELSE IF req.op = "write" /\ req.content = NoContent
        THEN /\ bridge' = [bridge EXCEPT ![t] =
                  [IdleBridge EXCEPT
                     !.resp = [n |-> n, success |-> FALSE, content |-> NoContent,
                               error |-> "missing content for write"]]]
             /\ UNCHANGED <<client_rx, response>>
        ELSE /\ bridge' = [bridge EXCEPT ![t] =
                  [pc |-> "await", req |-> rq, resolved |-> r.path, resp |-> NoResp,
                   roSince |-> SessionIsReadOnlyNow(req.session_id)]]
             /\ IF disp.pc = "stopped"
                THEN \* client_tx.send fails: the receiver is gone
                     /\ response' = [response EXCEPT ![t] = DroppedReply]
                     /\ UNCHANGED client_rx
                ELSE /\ response' = [response EXCEPT ![t] = NoReply]
                     /\ client_rx' = Append(client_rx,
                          [kind |-> IF req.op = "read" THEN "ReadTextFile"
                                    ELSE "WriteTextFile",
                           n |-> n, from |-> t, session_id |-> req.session_id,
                           path |-> r.path, content |-> req.content])
     /\ UNCHANGED <<workspace_root, disk, disp>>

\* A faulty variant: a read is served from local disk whenever the local
\* file operation works, whatever the client answered.
with_fallback_disk_first(t, ioOk) ==
  LET b == bridge[t]
      rep == response[t]
      n == b.req.n
  IN /\ b.pc = "await"
     /\ rep.state # "empty"
     /\ response' = [response EXCEPT ![t] = NoReply]
     /\ IF rep.state = "sent" /\ rep.ok /\ ~(b.req.op = "read" /\ ioOk)
        THEN /\ bridge' = [bridge EXCEPT ![t] =
                  [IdleBridge EXCEPT
                     !.resp = [n |-> n, success |-> TRUE,
                               content |-> IF b.req.op = "read" THEN rep.content
                                           ELSE NoContent,
                               error |-> ""]]]
             /\ UNCHANGED disk
        ELSE /\ disk' = [n |-> n, op |-> b.req.op, path |-> b.resolved,
                       content |-> b.req.content, ok |-> ioOk, ro |-> b.roSince]
             /\ bridge' = [bridge EXCEPT ![t] =
                  [IdleBridge EXCEPT
                     !.resp = [n |-> n, success |-> ioOk,
                               content |-> IF b.req.op = "read" /\ ioOk THEN "disk"
                                           ELSE NoContent,
                               error |-> IF ioOk THEN ""
                                         ELSE IF b.req.op = "read" THEN "failed to read"
                                         ELSE "failed to write"]]]
     /\ UNCHANGED <<workspace_root, bridgeCount, client_rx, disp>>

\* read_with_fallback / write_with_fallback after the reply arrived: a
\* client success is the answer; on any failure read_locally / write_locally
\* runs on the resolved path (ioOk: whether the local file operation works).
with_fallback(t, ioOk) ==
  LET b == bridge[t]
      rep == response[t]
      n == b.req.n
  IN /\ b.pc = "await"
     /\ rep.state # "empty"
     /\ response' = [response EXCEPT ![t] = NoReply]
     /\ IF rep.state = "sent" /\ rep.ok
        THEN /\ bridge' = [bridge EXCEPT ![t] =
                  [IdleBridge EXCEPT
                     !.resp = [n |-> n, success |-> TRUE,
                               content |-> IF b.req.op = "read" THEN rep.content
                                           ELSE NoContent,
                               error |-> ""]]]
             /\ UNCHANGED disk
        ELSE /\ disk' = [n |-> n, op |-> b.req.op, path |-> b.resolved,
                       content |-> b.req.content, ok |-> ioOk, ro |-> b.roSince]
             /\ bridge' = [bridge EXCEPT ![t] =
                  [IdleBridge EXCEPT
                     !.resp = [n |-> n, success |-> ioOk,
                               content |-> IF b.req.op = "read" /\ ioOk THEN "disk"
                                           ELSE NoContent,
                               error |-> IF ioOk THEN ""
                                         ELSE IF b.req.op = "read" THEN "failed to read"
                                         ELSE "failed to write"]]]
     /\ UNCHANGED <<workspace_root, bridgeCount, client_rx, disp>>

(***************************************************************************)
(* Dispatcher (main.rs): the client-op branch of the select! loop for the  *)
(* two file operations.                                                    *)
(***************************************************************************)
\* The session of the store a request id stands for, if any: the key equal
\* to it, else the key of the session whose fs_session_id equals it.
OwnerOf(id) ==
  IF id \in DOMAIN sessions THEN id
  ELSE IF \E k \in DOMAIN sessions : sessions[k].fs_session_id = id
       THEN CHOOSE k \in DOMAIN sessions : sessions[k].fs_session_id = id
       ELSE NoneId

\* The record of one dispatch: the op, the session it stands for and that
\* session's mode at that moment, and what the dispatcher did (the reply it
\* sent itself, or the request it forwarded).
LogEntry(op, outcome, reply, fwd) ==
  [n |-> op.n, kind |-> op.kind, owner |-> OwnerOf(op.session_id),
   ownerMode |-> IF OwnerOf(op.session_id) = NoneId THEN NoneId
                 ELSE sessions[OwnerOf(op.session_id)].current_mode,
   outcome |-> outcome, reply |-> reply, fwd |-> fwd]

NoDispatch == [n |-> 0, kind |-> "none", owner |-> NoneId, ownerMode |-> NoneId,
               outcome |-> "none", reply |-> NoReply, fwd |-> NoFwd]

\* A faulty variant: the request is forwarded with the id it came with.
DispatchReadTextFile_unresolved ==
  /\ disp.pc = "select"
  /\ client_rx # << >>
  /\ Head(client_rx).kind = "ReadTextFile"
  /\ LET op == Head(client_rx)
         fwd == [kind |-> "read_text_file", session_id |-> op.session_id,
                 path |-> op.path, content |-> NoContent]
     IN /\ client_rx' = Tail(client_rx)
        /\ disp' = [IdleDisp EXCEPT !.pc = "await_read", !.op = op, !.fwd = fwd]
        /\ lastDispatch' = LogEntry(op, "forwarded", NoReply, fwd)
        /\ UNCHANGED response

\* main.rs 71-84: ClientOp::ReadTextFile.
DispatchReadTextFile ==
  /\ disp.pc = "select"
  /\ client_rx # << >>
  /\ Head(client_rx).kind = "ReadTextFile"
  /\ LET op == Head(client_rx)
         resolved_id == resolve_acp_session_id(op.session_id)
     IN /\ client_rx' = Tail(client_rx)
        /\ IF resolved_id # NoneId
           THEN LET fwd == [kind |-> "read_text_file", session_id |-> resolved_id,
                            path |-> op.path, content |-> NoContent]
                IN /\ disp' = [IdleDisp EXCEPT !.pc = "await_read", !.op = op, !.fwd = fwd]
                   /\ lastDispatch' = LogEntry(op, "forwarded", NoReply, fwd)
                   /\ UNCHANGED response
           ELSE /\ response' = [response EXCEPT ![op.from] =
                      ErrReply("invalid_params", "unknown session for read_text_file")]
                /\ lastDispatch' =
                      LogEntry(op, "replied",
                         ErrReply("invalid_params", "unknown session for read_text_file"),
                         NoFwd)
                /\ UNCHANGED disp

\* main.rs 85-104: ClientOp::WriteTextFile.
DispatchWriteTextFile ==
  /\ disp.pc = "select"
  /\ client_rx # << >>
  /\ Head(client_rx).kind = "WriteTextFile"
  /\ LET op == Head(client_rx)
         resolved_id == resolve_acp_session_id(op.session_id)
         roErr == ErrReply("invalid_params",
                    "write_text_file is disabled while session mode is read-only")
         unkErr == ErrReply("invalid_params", "unknown session for write_text_file")
     IN /\ client_rx' = Tail(client_rx)
        /\ IF resolved_id # NoneId
           THEN IF is_read_only(resolved_id)
                THEN /\ response' = [response EXCEPT ![op.from] = roErr]
                     /\ lastDispatch' = LogEntry(op, "replied", roErr, NoFwd)
                     /\ UNCHANGED disp
                ELSE LET fwd == [kind |-> "write_text_file", session_id |-> resolved_id,
                                 path |-> op.path, content |-> op.content]
                     IN /\ disp' = [IdleDisp EXCEPT !.pc = "await_write", !.op = op, !.fwd = fwd]
                        /\ lastDispatch' = LogEntry(op, "forwarded", NoReply, fwd)
                        /\ UNCHANGED response
           ELSE /\ response' = [response EXCEPT ![op.from] = unkErr]
                /\ lastDispatch' = LogEntry(op, "replied", unkErr, NoFwd)
                /\ UNCHANGED disp

\* conn.read_text_file(req).await / conn.write_text_file(req).await returns
\* with the client's answer, which is passed on: let _ = tx.send(res).
ClientFileReply(ok) ==
  /\ disp.pc \in {"await_read", "await_write"}
  /\ response' = [response EXCEPT ![disp.op.from] =
        IF ok THEN OkReply(IF disp.pc = "await_read" THEN "buffer" ELSE "")
        ELSE ErrReply("internal_error", "client failed")]
  /\ disp' = IdleDisp
  /\ UNCHANGED <<client_rx, lastDispatch>>

(***************************************************************************)
(* Update channel and the notification / permission branches of the        *)
(* dispatcher (main.rs).                                                   *)
(***************************************************************************)
\* The tasks that send on the update channel: the prompt task and, per
\* session, the task spawned by new_session.
Producers == {PromptTask} \cup SessionIds

\* A faulty variant: the ack is fulfilled when the notification is received,
\* before it is written.
DispatchNotification_ack_first ==
  /\ disp.pc = "select"
  /\ rx # << >>
  /\ disp' = [IdleDisp EXCEPT !.pc = "notify", !.notif = Head(rx)]
  /\ rx' = Tail(rx)
  /\ ack' = [ack EXCEPT ![Head(rx).from] = "done"]
  /\ UNCHANGED <<sent, written, client_rx, response, lastDispatch>>

\* main.rs 55-58: rx.recv() yields the oldest notification and the
\* dispatcher starts conn.session_notification(..).await.
DispatchNotification ==
  /\ disp.pc = "select"
  /\ rx # << >>
  /\ disp' = [IdleDisp EXCEPT !.pc = "notify", !.notif = Head(rx)]
  /\ rx' = Tail(rx)
  /\ UNCHANGED <<ack, sent, written, client_rx, response, lastDispatch>>

\* A faulty variant: the loop ends on a failed write but the receivers and
\* what they hold stay alive.
session_notification_returns_keeping_receivers(ok) ==
  /\ disp.pc = "notify"
  /\ IF ok
     THEN /\ written' = disp.notif.n
          /\ ack' = [ack EXCEPT ![disp.notif.from] = "done"]
          /\ disp' = IdleDisp
          /\ UNCHANGED <<rx, client_rx, response>>
     ELSE /\ disp' = [IdleDisp EXCEPT !.pc = "stopped"]
          /\ UNCHANGED <<ack, rx, response, client_rx, written>>
  /\ UNCHANGED <<sent, lastDispatch>>

\* main.rs 58-60: the write returns.  Ok: the ack is fulfilled.  Err: the
\* loop breaks and the task ends, which drops both receivers with all
\* queued messages, and so every oneshot sender they hold.
session_notification_returns(ok) ==
  /\ disp.pc = "notify"
  /\ IF ok
     THEN /\ written' = disp.notif.n
          /\ ack' = [ack EXCEPT ![disp.notif.from] = "done"]
          /\ disp' = IdleDisp
          /\ UNCHANGED <<rx, client_rx, response>>
     ELSE /\ disp' = [IdleDisp EXCEPT !.pc = "stopped"]
          /\ ack' = [t \in Producers |->
                       IF t = disp.notif.from \/ \E i \in DOMAIN rx : rx[i].from = t
                       THEN "dropped" ELSE ack[t]]
          /\ rx' = << >>
          /\ response' = [t \in DOMAIN response |->
                            IF \E i \in DOMAIN client_rx : client_rx[i].from = t
                            THEN DroppedReply ELSE response[t]]
          /\ client_rx' = << >>
          /\ UNCHANGED written
  /\ UNCHANGED <<sent, lastDispatch>>

\* main.rs 67-68: ClientOp::RequestPermission is taken and the dispatcher
\* awaits conn.request_permission(req).
DispatchRequestPermission ==
  /\ disp.pc = "select"
  /\ client_rx # << >>
  /\ Head(client_rx).kind = "RequestPermission"
  /\ disp' = [IdleDisp EXCEPT !.pc = "await_perm", !.op = Head(client_rx)]
  /\ client_rx' = Tail(client_rx)
  /\ UNCHANGED <<response, lastDispatch>>

\* What the ACP client may answer to a permission request: one of the
\* offered options, another option id, a cancelled outcome, or an error.
Cancelled == "<cancelled>"
PermissionReplies ==
  {OkReply("approved"), OkReply("approved-for-session"), OkReply("abort"),
   OkReply(Cancelled), ErrReply("internal_error", "client failed")}

\* main.rs 68-69: request_permission returns and its result is passed on.
request_permission_returns(res) ==
  /\ disp.pc = "await_perm"
  /\ response' = [response EXCEPT ![disp.op.from] = res]
  /\ disp' = IdleDisp
  /\ UNCHANGED <<client_rx, lastDispatch>>

(***************************************************************************)
(* The task spawned by new_session (agent/sessions.rs 62-83).              *)
(***************************************************************************)
\* tx_updates.send((AvailableCommandsUpdate, tx)); a failed send is ignored
\* and drops tx, so that rx.await returns at once.
commands_task_send(sid) ==
  /\ cmdTask[sid] = "spawned"
  /\ IF disp.pc = "stopped"
     THEN /\ cmdTask' = [cmdTask EXCEPT ![sid] = "done"]
          /\ UNCHANGED <<rx, ack, sent>>
     ELSE /\ rx' = Append(rx, [n |-> sent + 1, from |-> sid, session_id |-> sid,
                               update |-> "AvailableCommandsUpdate"])
          /\ sent' = sent + 1
          /\ ack' = [ack EXCEPT ![sid] = "pending"]
          /\ cmdTask' = [cmdTask EXCEPT ![sid] = "await"]
  /\ UNCHANGED <<written, new_session_response>>

\* let _ = rx.await: the task ends when the ack arrives or is dropped.
commands_task_done(sid) ==
  /\ cmdTask[sid] = "await"
  /\ ack[sid] \in {"done", "dropped"}
  /\ ack' = [ack EXCEPT ![sid] = "none"]
  /\ cmdTask' = [cmdTask EXCEPT ![sid] = "done"]
  /\ UNCHANGED <<rx, sent, written, new_session_response>>

(***************************************************************************)
(* Tool calls announced to the client (agent/events.rs, prompt.rs 149-188).*)
(***************************************************************************)
ToolCallIds == {"c1", "c2"}

\* The variants that announce or close a tool call.
ToolBeginKinds == {"McpToolCallBegin", "ExecCommandBegin"}
ToolEndKinds == {"McpToolCallEnd", "ExecCommandEnd"}

InitTools == tools = [c \in ToolCallIds |-> "none"]

\* events.rs 48-66 / 104-150: a begin builds ToolCall{id: call_id, status:
\* InProgress}; events.rs 69-101 / 153-194: an end builds ToolCallUpdate{id:
\* call_id, status: Completed or Failed}.
tool_status(event) ==
  IF event.kind \in ToolBeginKinds THEN "in_progress"
  ELSE IF event.success THEN "completed" ELSE "failed"

(***************************************************************************)
(* The backend conversation (codex-core), seen through submit/next_event.  *)
(***************************************************************************)
\* The id submit() returns for the prompt's op, and an id of another
\* submission of the same conversation.
SubmitId == "sub1"
OtherId == "sub0"
EventIds == {SubmitId, OtherId}

\* Event variants of the prompt specifications.  ExecCommandBegin stands for
\* the variants that only build an update and send it (McpToolCallBegin/End,
\* ExecCommandBegin/End, PatchApplyEnd, PlanUpdate); AgentReasoningDelta for
\* those that only add text to the aggregator; TokenCount for those that
\* send nothing.
EventKinds ==
  {"AgentMessageDelta", "AgentMessage", "AgentReasoningDelta", "AgentReasoning",
   "ExecCommandBegin", "ExecApprovalRequest", "ApplyPatchApprovalRequest",
   "TokenCount", "TaskComplete", "Error", "StreamError", "ShutdownComplete",
   "TurnAborted", "ExitedReviewMode"}

ApprovalRequests == {"ExecApprovalRequest", "ApplyPatchApprovalRequest"}

\* The variants on which the main loop breaks.
TerminalKinds == {"TaskComplete", "ShutdownComplete", "TurnAborted"}

NoEvent == [id |-> NoneId, kind |-> "none", call_id |-> 0]

\* closed: submit and next_event fail.  interrupted: Op::Interrupt was
\* submitted during the current turn.  aborted: since then the backend has
\* emitted TurnAborted with the prompt's submit id, the prompt being in its
\* event loop and no other terminal event of the prompt being queued.
IdleBackend == [closed |-> FALSE, interrupted |-> FALSE, aborted |-> FALSE]

InEventLoop == p.kind = "input" /\ p.pc \in {"loop", "ack", "perm"} /\ p.stop_reason = "none"

\* The backend emits an event of the conversation.
Emit(id, kind) ==
  /\ ~backend.closed
  /\ p.pc \notin {"idle", "done"}
  /\ emitted < MaxEvents
  /\ Len(events) < MaxQueue
  /\ events' = Append(events, [id |-> id, kind |-> kind, call_id |-> emitted + 1])
  /\ emitted' = emitted + 1
  /\ backend' = [backend EXCEPT !.aborted =
        @ \/ (/\ backend.interrupted
              /\ kind = "TurnAborted"
              /\ id = p.submit_id
              /\ InEventLoop
              /\ \A i \in DOMAIN events :
                    ~(events[i].id = p.submit_id /\ events[i].kind \in TerminalKinds))]
  /\ UNCHANGED <<p, approvals>>

\* The backend emits the begin or the end of tool call `call`.
EmitToolEvent(id, kind, call, success) ==
  /\ ~backend.closed
  /\ p.pc \notin {"idle", "done"}
  /\ emitted < MaxEvents
  /\ Len(events) < MaxQueue
  /\ events' = Append(events, [id |-> id, kind |-> kind, call_id |-> call,
                                success |-> success])
  /\ emitted' = emitted + 1
  /\ UNCHANGED <<backend, p, approvals>>

\* The conversation shuts down: its channels close.
BackendClose ==
  /\ ~backend.closed
  /\ backend' = [backend EXCEPT !.closed = TRUE]
  /\ UNCHANGED <<events, emitted, p, approvals>>

\* CodexAgent::cancel: get_conversation, then submit(Op::Interrupt).  With
\* no such session or a closed conversation the call returns an error.
cancel(sid) ==
  /\ sid \in DOMAIN sessions
  /\ ~backend.closed
  /\ backend' = [backend EXCEPT !.interrupted = TRUE]
  /\ UNCHANGED <<events, emitted, p, approvals>>

(***************************************************************************)
(* CodexAgent::prompt (agent/prompt.rs) and the event loop of              *)
(* handle_slash_command for /compact and /review (agent/commands.rs).      *)
(***************************************************************************)
\* pc: idle, loop (next_event of the main loop), cmd_loop (next_event of
\* the command loop), ack (rx.await of send_session_update), perm
\* (rxp.await), done.  cont: where the task goes on after the ack.
\* gotDelta, suppressed, terminals and lastN are history: whether a delta
\* with the submit id was processed, whether an AgentMessage was passed over
\* for that reason, how many terminal events with the submit id were
\* processed, and the number of the last update the task enqueued.
IdlePrompt ==
  [pc |-> "idle", cont |-> "none", kind |-> "none", session_id |-> NoneId,
   submit_id |-> NoneId, saw_message_delta |-> FALSE, reason |-> FALSE,
   stop_reason |-> "none", result |-> "none",
   gotDelta |-> FALSE, suppressed |-> FALSE, terminals |-> 0, lastN |-> 0]

\* The prompt's first block: plain input, or the command /compact or /review.
PromptKinds == {"input", "command"}

NoApprovalOp == [kind |-> "none", id |-> NoneId, decision |-> "none", n |-> 0]

\* requests: approval-request events taken up by the prompt; req: the last
\* of them; ops: approval ops submitted; last: the last of them.
NoApprovals ==
  [requests |-> 0, req |-> NoEvent, ops |-> 0, last |-> NoApprovalOp]

\* events::handle_response_outcome.
handle_response_outcome(resp) ==
  IF resp.content = "approved" THEN "Approved"
  ELSE IF resp.content = "approved-for-session" THEN "ApprovedForSession"
  ELSE "Abort"

\* A faulty variant: the decision does not depend on the reply.
ApprovalOp_always_approved(event, resp) ==
  [kind |-> IF event.kind = "ExecApprovalRequest" THEN "ExecApproval"
            ELSE "PatchApproval",
   id |-> event.id,
   decision |-> "Approved",
   n |-> event.call_id]

\* Op::ExecApproval { id: event.id, decision } / Op::PatchApproval { .. };
\* n names the request the op answers.
ApprovalOp(event, resp) ==
  [kind |-> IF event.kind = "ExecApprovalRequest" THEN "ExecApproval"
            ELSE "PatchApproval",
   id |-> event.id,
   decision |-> handle_response_outcome(resp),
   n |-> event.call_id]

\* The message chunk of an Error or StreamError event: the event's message
\* (prompt.rs 307-310, commands.rs 356-367), and msg.push_str("\n\n").
ErrorMessage == "chunk:<message>"
WithBlankLine(msg) == msg \o "\n\n"

\* The function returns Err(..): no response is produced.
Fail(base) == [base EXCEPT !.pc = "done", !.cont = "none", !.result = "error"]

\* A faulty variant: the caller goes on without awaiting the ack.
send_session_update_not_awaited(base, update, cont) ==
  IF disp.pc = "stopped"
  THEN /\ p' = Fail(base)
       /\ UNCHANGED <<rx, sent, ack>>
  ELSE /\ rx' = Append(rx, [n |-> sent + 1, from |-> PromptTask,
                            session_id |-> base.session_id, update |-> update])
       /\ sent' = sent + 1
       /\ ack' = [ack EXCEPT ![PromptTask] = "pending"]
       /\ p' = IF cont = "done"
               THEN [base EXCEPT !.pc = "done", !.result = base.stop_reason,
                                 !.lastN = sent + 1]
               ELSE [base EXCEPT !.pc = cont, !.lastN = sent + 1]

\* CodexAgent::send_session_update up to rx.await: a send on a closed
\* channel makes the caller return the error.  base is the task with its
\* locals already updated, cont the position after the ack.
send_session_update(base, update, cont) ==
  IF disp.pc = "stopped"
  THEN /\ p' = Fail(base)
       /\ UNCHANGED <<rx, sent, ack>>
  ELSE /\ rx' = Append(rx, [n |-> sent + 1, from |-> PromptTask,
                            session_id |-> base.session_id, update |-> update])
       /\ sent' = sent + 1
       /\ ack' = [ack EXCEPT ![PromptTask] = "pending"]
       /\ p' = [base EXCEPT !.pc = "ack", !.cont = cont, !.lastN = sent + 1]

\* The step sends nothing.
no_update(base) ==
  /\ p' = base
  /\ UNCHANGED <<rx, sent, ack>>

\* rx.await of send_session_update returns: Ok goes on, a dropped ack is
\* an error.  Returning from the function yields the stop reason.
prompt_ack ==
  /\ p.pc = "ack"
  /\ ack[PromptTask] \in {"done", "dropped"}
  /\ ack' = [ack EXCEPT ![PromptTask] = "none"]
  /\ IF ack[PromptTask] = "dropped" THEN p' = Fail(p)
     ELSE IF p.cont = "done"
          THEN p' = [p EXCEPT !.pc = "done", !.cont = "none", !.result = p.stop_reason]
          ELSE p' = [p EXCEPT !.pc = p.cont, !.cont = "none"]
  /\ UNCHANGED <<rx, sent, written, client_rx, response, events, emitted, backend,
                 approvals>>

\* prompt.rs 29-95 and commands.rs 293-328: get_conversation, then either
\* submit(Op::UserInput) and enter the main loop, or, for /compact and
\* /review, submit the command's op, send the command's message and enter
\* the command loop.  A new op starts a new turn of the backend.
prompt_start(sid, kind) ==
  /\ p.pc = "idle"
  /\ LET base == [IdlePrompt EXCEPT !.kind = kind, !.session_id = sid]
     IN IF sid \notin DOMAIN sessions
        THEN /\ p' = Fail(base)
             /\ UNCHANGED <<rx, sent, ack, backend>>
        ELSE IF kind = "input"
        THEN /\ IF backend.closed
                THEN /\ p' = Fail(base)
                     /\ UNCHANGED backend
                ELSE /\ p' = [base EXCEPT !.pc = "loop", !.submit_id = SubmitId]
                     /\ backend' = [backend EXCEPT !.interrupted = FALSE]
             /\ UNCHANGED <<rx, sent, ack>>
        ELSE IF backend.closed
        THEN /\ send_session_update([base EXCEPT !.stop_reason = "EndTurn"],
                                    "chunk:Failed to submit message", "done")
             /\ UNCHANGED backend
        ELSE /\ send_session_update([base EXCEPT !.submit_id = SubmitId,
                                                 !.stop_reason = "EndTurn"],
                                    "chunk:command", "cmd_loop")
             /\ backend' = [backend EXCEPT !.interrupted = FALSE]
  /\ UNCHANGED <<written, client_rx, response, events, emitted, approvals>>

\* prompt.rs 197-204 / 230-237: the permission request goes to the
\* dispatcher (a failed send is ignored and drops txp) and the task waits
\* on rxp.
request_permission(event) ==
  /\ approvals' = [approvals EXCEPT !.requests = @ + 1, !.req = event]
  /\ p' = [p EXCEPT !.pc = "perm"]
  /\ IF disp.pc = "stopped"
     THEN /\ response' = [response EXCEPT ![PromptTask] = DroppedReply]
          /\ UNCHANGED client_rx
     ELSE /\ response' = [response EXCEPT ![PromptTask] = NoReply]
          /\ client_rx' = Append(client_rx,
               [kind |-> "RequestPermission", n |-> event.call_id,
                from |-> PromptTask, session_id |-> p.session_id,
                path |-> << >>, content |-> event.kind])
  /\ UNCHANGED <<rx, sent, ack>>

\* A faulty variant: the response is returned without waiting for the ack
\* of the last thought chunk.
break_loop_no_wait(sr) ==
  LET base == [p EXCEPT !.stop_reason = sr, !.terminals = @ + 1,
                        !.pc = "done", !.result = sr]
  IN IF p.reason /\ disp.pc # "stopped"
     THEN /\ rx' = Append(rx, [n |-> sent + 1, from |-> PromptTask,
                               session_id |-> p.session_id, update |-> "thought"])
          /\ sent' = sent + 1
          /\ ack' = [ack EXCEPT ![PromptTask] = "pending"]
          /\ p' = [base EXCEPT !.reason = FALSE, !.lastN = sent + 1]
     ELSE /\ p' = base
          /\ UNCHANGED <<rx, sent, ack>>

\* The loop breaks with stop reason sr; prompt.rs 320-331: what is left in
\* the reasoning aggregator is sent as a thought chunk, then the response
\* is returned.
break_loop(sr) ==
  LET base == [p EXCEPT !.stop_reason = sr, !.terminals = @ + 1]
  IN IF p.reason
     THEN send_session_update([base EXCEPT !.reason = FALSE], "thought", "done")
     ELSE /\ p' = [base EXCEPT !.pc = "done", !.result = sr]
          /\ UNCHANGED <<rx, sent, ack>>

\* A faulty variant: the delta is sent but saw_message_delta stays false.
on_agent_message_delta_unmarked ==
  send_session_update([p EXCEPT !.gotDelta = TRUE], "chunk:delta", "loop")

\* prompt.rs 108-112: EventMsg::AgentMessageDelta.
on_agent_message_delta ==
  send_session_update([p EXCEPT !.saw_message_delta = TRUE, !.gotDelta = TRUE],
                      "chunk:delta", "loop")

\* prompt.rs 113-119: EventMsg::AgentMessage.
on_agent_message ==
  IF p.saw_message_delta THEN no_update([p EXCEPT !.suppressed = TRUE])
  ELSE send_session_update(p, "chunk:message", "loop")

\* prompt.rs 107-317: the match on an event that carries the submit id.
\* The text of a reasoning event is taken to be non-blank.
handle_event(event) ==
  IF event.kind \in ApprovalRequests
  THEN request_permission(event)
  ELSE /\ UNCHANGED <<client_rx, response, approvals>>
       /\ CASE event.kind = "AgentMessageDelta" -> on_agent_message_delta
            [] event.kind = "AgentMessage" -> on_agent_message
            [] event.kind = "AgentReasoningDelta" ->
                 no_update([p EXCEPT !.reason = TRUE])
            [] event.kind = "AgentReasoning" ->
                 send_session_update([p EXCEPT !.reason = FALSE], "thought", "loop")
            [] event.kind \in ToolBeginKinds \cup ToolEndKinds ->
                 send_session_update(p, "tool", "loop")
            [] event.kind = "TaskComplete" -> break_loop("EndTurn")
            [] event.kind \in {"Error", "StreamError"} ->
                 send_session_update(p, WithBlankLine(ErrorMessage), "loop")
            [] event.kind \in {"ShutdownComplete", "TurnAborted"} ->
                 break_loop("Cancelled")
            [] OTHER -> no_update(p)

\* prompt.rs 98-105: next_event, then the id filter.  On an empty queue the
\* call waits, and fails once the conversation is closed.
prompt_next_event ==
  /\ p.pc = "loop"
  /\ IF events = << >>
     THEN /\ backend.closed
          /\ p' = Fail(p)
          /\ UNCHANGED <<events, rx, sent, ack, client_rx, response, approvals>>
     ELSE /\ events' = Tail(events)
          /\ IF Head(events).id # p.submit_id
             THEN /\ no_update(p)
                  /\ UNCHANGED <<client_rx, response, approvals>>
             ELSE handle_event(Head(events))
  /\ UNCHANGED <<written, emitted, backend>>

\* commands.rs 330-371: the loop of /compact and /review.  It matches on
\* event.msg alone.  ExitedReviewMode is taken to carry a review output.
command_next_event ==
  /\ p.pc = "cmd_loop"
  /\ IF events = << >>
     THEN /\ backend.closed
          /\ p' = Fail(p)
          /\ UNCHANGED <<events, rx, sent, ack>>
     ELSE /\ events' = Tail(events)
          /\ CASE Head(events).kind = "ExitedReviewMode" ->
                    send_session_update(p, "chunk:review", "cmd_loop")
               [] Head(events).kind \in {"TaskComplete", "ShutdownComplete"} ->
                    send_session_update(p, "chunk:Task completed", "done")
               [] Head(events).kind = "StreamError" ->
                    send_session_update(p, WithBlankLine(ErrorMessage), "cmd_loop")
               [] Head(events).kind = "Error" ->
                    send_session_update(p, ErrorMessage, "done")
               [] OTHER -> no_update(p)
  /\ UNCHANGED <<written, emitted, backend, client_rx, response, approvals>>

\* prompt.rs 203-215 / 236-247: rxp.await returns.  A dropped sender is an
\* error of the prompt; Ok(resp) submits the approval op (a failed submit
\* is an error of the prompt); Err(_) from the client submits nothing.
prompt_permission_reply ==
  /\ p.pc = "perm"
  /\ response[PromptTask].state # "empty"
  /\ response' = [response EXCEPT ![PromptTask] = NoReply]
  /\ IF response[PromptTask].state = "dropped"
     THEN /\ p' = Fail(p)
          /\ UNCHANGED approvals
     ELSE IF response[PromptTask].ok
     THEN IF backend.closed
          THEN /\ p' = Fail(p)
               /\ UNCHANGED approvals
          ELSE /\ p' = [p EXCEPT !.pc = "loop"]
               /\ approvals' = [approvals EXCEPT
                     !.ops = @ + 1,
                     !.last = ApprovalOp(approvals.req, response[PromptTask])]
     ELSE /\ p' = [p EXCEPT !.pc = "loop"]
          /\ UNCHANGED approvals
  /\ UNCHANGED <<rx, sent, ack, written, client_rx, events, emitted, backend>>

(***************************************************************************)
(* events::ReasoningAggregator (agent/events.rs 365-447) and the arms of   *)
(* the prompt loop that use it (agent/prompt.rs 120-148, 320-325).  A text *)
(* is a sequence of characters.                                            *)
(***************************************************************************)
Whitespace == {" ", "\n"}

\* str::trim().is_empty()
is_blank(t) == \A i \in DOMAIN t : t[i] \in Whitespace

RECURSIVE trim_end(_)
trim_end(t) ==
  IF t # << >> /\ t[Len(t)] \in Whitespace
  THEN trim_end(SubSeq(t, 1, Len(t) - 1))
  ELSE t

RECURSIVE trim_start(_)
trim_start(t) ==
  IF t # << >> /\ t[1] \in Whitespace THEN trim_start(Tail(t)) ELSE t

trim(t) == trim_start(trim_end(t))

\* Option<String>
NoText == [some |-> FALSE, text |-> << >>]
SomeText(t) == [some |-> TRUE, text |-> t]

\* ReasoningAggregator::new
ReasoningAggregator_new == [sections |-> << >>, current |-> << >>]

\* The thought chunks the prompt has enqueued; the deltas the prompt has
\* taken since its last final reasoning event, and the text of a final
\* reasoning event that repeated them (history).
NoReasonCase == [deltas |-> << >>, text |-> << >>]

InitReason ==
  /\ reason = ReasoningAggregator_new
  /\ thoughts = << >>
  /\ reasonCase = NoReasonCase

\* n: calls made; hist: the texts appended since the aggregator was last
\* emptied, one per stretch between two section_break calls; before: hist
\* when the last call was made; op, arg, out: the last call, its argument
\* and its result.
NoAggLog ==
  [n |-> 0, hist |-> << << >> >>, before |-> << << >> >>, op |-> "none",
   arg |-> NoText, out |-> NoText]

InitAgg == aggLog = NoAggLog

append_delta(agg, delta) == [agg EXCEPT !.current = @ \o delta]

section_break(agg) ==
  IF agg.current # << >>
  THEN [sections |-> Append(agg.sections, agg.current), current |-> << >>]
  ELSE agg

\* A faulty variant: the section is pushed with its trailing whitespace.
push_section_untrimmed(acc, section) ==
  IF is_blank(section) THEN acc
  ELSE [combined |-> acc.combined \o (IF acc.first THEN << >> ELSE <<"\n", "\n">>)
                       \o section,
        first |-> FALSE]

\* The loop of take_text over the drained sections, and the same step for
\* self.current: acc is (combined, first).
push_section(acc, section) ==
  IF is_blank(section) THEN acc
  ELSE [combined |-> acc.combined \o (IF acc.first THEN << >> ELSE <<"\n", "\n">>)
                       \o trim_end(section),
        first |-> FALSE]

RECURSIVE drain_sections(_, _)
drain_sections(acc, secs) ==
  IF secs = << >> THEN acc
  ELSE drain_sections(push_section(acc, Head(secs)), Tail(secs))

\* ReasoningAggregator::take_text: the aggregator it leaves and the text.
take_text(agg) ==
  LET acc == push_section(
               drain_sections([combined |-> << >>, first |-> TRUE], agg.sections),
               agg.current)
  IN [agg |-> ReasoningAggregator_new,
      text |-> IF acc.combined = << >> THEN NoText ELSE SomeText(acc.combined)]

\* ReasoningAggregator::choose_final_text
choose_final_text(agg, final_text) ==
  LET taken == take_text(agg)
      aggregated == taken.text
  IN [agg |-> taken.agg,
      text |-> IF aggregated.some /\ final_text.some
               THEN IF Len(trim(final_text.text)) > Len(trim(aggregated.text))
                    THEN final_text ELSE aggregated
               ELSE IF aggregated.some THEN aggregated
               ELSE final_text]

ReasoningDeltaKinds == {"AgentReasoningDelta", "AgentReasoningRawContentDelta"}
ReasoningFinalKinds == {"AgentReasoning", "AgentReasoningRawContent"}
ReasoningKinds ==
  ReasoningDeltaKinds \cup ReasoningFinalKinds \cup {"AgentReasoningSectionBreak"}

\* The backend emits a reasoning event with its text.
EmitReasoning(id, kind, text) ==
  /\ ~backend.closed
  /\ p.pc \notin {"idle", "done"}
  /\ emitted < MaxEvents
  /\ Len(events) < MaxQueue
  /\ events' = Append(events, [id |-> id, kind |-> kind, call_id |-> emitted + 1,
                                text |-> text])
  /\ emitted' = emitted + 1
  /\ UNCHANGED <<backend, p, approvals>>

\* CodexAgent::send_thought_chunk (core.rs 131-141).
send_thought_chunk(base, text, cont) ==
  /\ send_session_update(base, "thought", cont)
  /\ thoughts' = IF disp.pc = "stopped" THEN thoughts ELSE Append(thoughts, text)

\* prompt.rs 320-331: the loop has broken with stop reason sr; what
\* take_text returns is sent as a thought chunk, then the response is
\* returned.
flush_reasoning(sr) ==
  LET base == [p EXCEPT !.stop_reason = sr, !.terminals = @ + 1]
      taken == take_text(reason)
  IN /\ reason' = taken.agg
     /\ IF taken.text.some /\ ~is_blank(taken.text.text)
        THEN send_thought_chunk(base, taken.text.text, "done")
        ELSE /\ p' = [base EXCEPT !.pc = "done", !.result = sr]
             /\ UNCHANGED <<rx, sent, ack, thoughts>>

\* prompt.rs 120-148: the reasoning arms of the match, and 302-314: the
\* arms that break the loop.
handle_reasoning_event(event) ==
  CASE event.kind \in ReasoningDeltaKinds ->
         /\ reason' = append_delta(reason, event.text)
         /\ no_update(p)
         /\ UNCHANGED thoughts
    [] event.kind = "AgentReasoning" ->
         LET final_text == IF is_blank(event.text) THEN NoText
                           ELSE SomeText(event.text)
             chosen == choose_final_text(section_break(reason), final_text)
         IN /\ reason' = chosen.agg
            /\ IF chosen.text.some /\ ~is_blank(chosen.text.text)
               THEN send_thought_chunk(p, chosen.text.text, "loop")
               ELSE /\ no_update(p)
                    /\ UNCHANGED thoughts
    [] event.kind = "AgentReasoningRawContent" ->
         /\ reason' = IF is_blank(event.text) THEN section_break(reason)
                      ELSE append_delta(section_break(reason), event.text)
         /\ no_update(p)
         /\ UNCHANGED thoughts
    [] event.kind = "AgentReasoningSectionBreak" ->
         /\ reason' = section_break(reason)
         /\ no_update(p)
         /\ UNCHANGED thoughts
    [] event.kind = "TaskComplete" -> flush_reasoning("EndTurn")
    [] event.kind \in {"ShutdownComplete", "TurnAborted"} ->
         flush_reasoning("Cancelled")
    [] OTHER ->
         /\ no_update(p)
         /\ UNCHANGED <<reason, thoughts>>

\* prompt.rs 98-105: next_event, then the id filter, then the match.
reasoning_next_event ==
  /\ p.pc = "loop"
  /\ IF events = << >>
     THEN /\ backend.closed
          /\ p' = Fail(p)
          /\ UNCHANGED <<events, rx, sent, ack, reason, thoughts>>
     ELSE /\ events' = Tail(events)
          /\ IF Head(events).id # p.submit_id
             THEN /\ no_update(p)
                  /\ UNCHANGED <<reason, thoughts>>
             ELSE handle_reasoning_event(Head(events))
  /\ UNCHANGED <<written, emitted, backend, client_rx, response, approvals>>

(***************************************************************************)
(* The MCP filesystem server (fs/mcp_server.rs): read_text_file.  A file   *)
(* is the sequence of its lines (str::lines of its content), a line and    *)
(* the content the bridge answers are sequences of characters.             *)
(***************************************************************************)
DEFAULT_READ_LINE_LIMIT == 1000
\* 50 * 1024
MAX_READ_BYTES == 51200

\* u32::saturating_add and saturating_sub; no sum of the line numbers and
\* limits drawn here comes near u32::MAX, where the sum saturates.
saturating_add(a, b) == a + b
saturating_sub(a, b) == IF a < b THEN 0 ELSE a - b

NoneU32 == [some |-> FALSE, v |-> 0]
SomeU32(n) == [some |-> TRUE, v |-> n]

NoReadLog ==
  [op |-> "none", file |-> << >>, line |-> NoneU32, limit |-> NoneU32,
   via |-> "none", text |-> << >>, hint |-> NoText, meta |-> << >>]

InitRead == readLog = NoReadLog

\* [&str]::join("\n")
RECURSIVE join_lines(_)
join_lines(lines) ==
  IF lines = << >> THEN << >>
  ELSE IF Len(lines) = 1 THEN lines[1]
  ELSE lines[1] \o <<"\n">> \o join_lines(Tail(lines))

\* bridge.rs 271-295: FsBridgeInner::read_locally on the lines of the file.
read_locally(lines, line, limit) ==
  IF line.some
  THEN LET start == saturating_sub(line.v, 1)
           count == IF limit.some THEN limit.v ELSE Len(lines)
       IN IF start >= Len(lines) THEN << >>
          ELSE LET end == IF start + count < Len(lines) THEN start + count
                          ELSE Len(lines)
               IN join_lines(SubSeq(lines, start + 1, end))
  ELSE join_lines(lines) \o <<"\n">>

\* The content the ACP client answers to read_text_file (bridge.rs 245-269,
\* main.rs 71-84): the same slice of lines, the last one with or without
\* its line terminator.
client_content(lines, line, limit, terminated) ==
  LET start == IF line.some THEN saturating_sub(line.v, 1) ELSE 0
      count == IF limit.some THEN limit.v ELSE Len(lines)
      end == IF start + count < Len(lines) THEN start + count ELSE Len(lines)
      slice == SubSeq(lines, start + 1, end)
  IN IF slice = << >> THEN << >>
     ELSE join_lines(slice) \o (IF terminated THEN <<"\n">> ELSE << >>)

\* bridge.rs 226-243: read_with_fallback.  client: "ok", "ok_terminated" or
\* "error", the answer of the client.
read_with_fallback(lines, line, limit, client) ==
  IF client = "error" THEN read_locally(lines, line, limit)
  ELSE client_content(lines, line, limit, client = "ok_terminated")

\* str::split_inclusive('\n')
RECURSIVE split_inclusive(_, _)
split_inclusive(raw, segment) ==
  IF raw = << >> THEN (IF segment = << >> THEN << >> ELSE <<segment>>)
  ELSE IF Head(raw) = "\n"
       THEN <<Append(segment, "\n")>> \o split_inclusive(Tail(raw), << >>)
       ELSE split_inclusive(Tail(raw), Append(segment, Head(raw)))

\* str::lines().count(), for texts without carriage returns.
lines_count(raw) == Len(split_inclusive(raw, << >>))

\* mcp_server.rs 546-568: the loop of prepare_read_snippet over the
\* segments; acc is (text, lines_taken, bytes_used, and the two flags).
RECURSIVE take_segments(_, _, _, _)
take_segments(segments, acc, requested_limit, max_bytes) ==
  IF segments = << >> THEN acc
  ELSE IF acc.lines_taken >= requested_limit
       THEN [acc EXCEPT !.truncated_by_line_limit = TRUE]
  ELSE LET segment == Head(segments)
           segment_bytes == Len(segment)
       IN IF acc.bytes_used + segment_bytes > max_bytes
          THEN LET remaining == saturating_sub(max_bytes, acc.bytes_used)
               IN [acc EXCEPT !.text = @ \o SubSeq(segment, 1, remaining),
                              !.bytes_used = @ + remaining,
                              !.truncated_by_bytes = TRUE,
                              !.lines_taken = @ + 1]
          ELSE take_segments(Tail(segments),
                             [acc EXCEPT !.text = @ \o segment,
                                         !.bytes_used = @ + segment_bytes,
                                         !.lines_taken = @ + 1],
                             requested_limit, max_bytes)

\* mcp_server.rs 521-593: prepare_read_snippet.
prepare_read_snippet(raw, start_line, requested_limit, max_bytes) ==
  IF raw = << >> \/ requested_limit = 0
  THEN [text |-> << >>, lines_returned |-> 0,
        end_line |-> saturating_sub(start_line, 1),
        truncated_by_line_limit |-> FALSE, truncated_by_bytes |-> FALSE,
        additional_lines_available |-> FALSE, bytes_returned |-> 0]
  ELSE LET acc == take_segments(split_inclusive(raw, << >>),
                                [text |-> << >>, lines_taken |-> 0, bytes_used |-> 0,
                                 truncated_by_line_limit |-> FALSE,
                                 truncated_by_bytes |-> FALSE],
                                requested_limit, max_bytes)
           raw_line_count == lines_count(raw)
       IN [text |-> acc.text,
           lines_returned |-> acc.lines_taken,
           end_line |-> IF acc.lines_taken = 0 THEN saturating_sub(start_line, 1)
                        ELSE saturating_add(start_line,
                                            saturating_sub(acc.lines_taken, 1)),
           truncated_by_line_limit |-> acc.truncated_by_line_limit,
           truncated_by_bytes |-> acc.truncated_by_bytes,
           additional_lines_available |->
              \/ acc.truncated_by_bytes
              \/ raw_line_count > acc.lines_taken
              \/ acc.bytes_used < Len(raw),
           bytes_returned |-> acc.bytes_used]

\* mcp_server.rs 606-641: build_file_read_hint; the numbers are formatted
\* in decimal.
build_file_read_hint(snippet, start_line, requested_limit, max_bytes) ==
  IF ~(\/ snippet.truncated_by_line_limit
       \/ snippet.truncated_by_bytes
       \/ snippet.additional_lines_available)
  THEN NoText
  ELSE LET effective_end == IF snippet.lines_returned = 0 THEN start_line
                            ELSE snippet.end_line
           description ==
              "Read lines " \o ToString(start_line) \o "-" \o ToString(effective_end)
              \o (IF snippet.truncated_by_bytes
                  THEN " (hit " \o ToString(max_bytes) \o " byte cap)"
                  ELSE " (showing up to " \o ToString(requested_limit) \o " lines)")
           after_end == saturating_add(snippet.end_line, 1)
           next_line == IF after_end > start_line THEN after_end ELSE start_line
       IN SomeText("<file-read-info>" \o description
                   \o " Continue with line=" \o ToString(next_line)
                   \o " limit=" \o ToString(requested_limit) \o "."
                   \o "</file-read-info>")

\* mcp_server.rs 196-255: the read_text_file arm of handle_tool_call, for a
\* bridge that answers with content.  The text of the result is the
\* characters of the snippet, then a blank line and the hint when there is
\* one.  The byte cap is a parameter, MAX_READ_BYTES in the code.
read_text_file_capped(lines, line, limit, client, max_bytes) ==
  LET start_line == IF line.some /\ line.v > 1 THEN line.v ELSE 1
      requested_limit == IF limit.some /\ limit.v > 0 THEN limit.v
                         ELSE DEFAULT_READ_LINE_LIMIT
      bridge_limit == saturating_add(requested_limit, 1)
      bridge_response == read_with_fallback(lines, line, SomeU32(bridge_limit), client)
      snippet == prepare_read_snippet(bridge_response, start_line, requested_limit,
                                      max_bytes)
      hint == build_file_read_hint(snippet, start_line, requested_limit,
                                   max_bytes)
      truncated == \/ snippet.truncated_by_line_limit
                   \/ snippet.truncated_by_bytes
                   \/ snippet.additional_lines_available
  IN [text |-> IF hint.some
               THEN snippet.text
                    \o (IF snippet.text # << >> THEN <<"\n", "\n">> ELSE << >>)
                    \o <<hint.text>>
               ELSE snippet.text,
      hint |-> hint,
      meta |-> [start_line |-> start_line,
                end_line |-> snippet.end_line,
                lines_returned |-> snippet.lines_returned,
                line_limit |-> requested_limit,
                bytes_returned |-> snippet.bytes_returned,
                truncated |-> truncated,
                truncated_by_line_limit |-> snippet.truncated_by_line_limit,
                truncated_by_bytes |-> snippet.truncated_by_bytes,
                additional_lines_available |-> snippet.additional_lines_available,
                next_line |-> IF truncated
                              THEN SomeU32(saturating_add(snippet.end_line, 1))
                              ELSE NoneU32,
                max_bytes |-> IF snippet.truncated_by_bytes
                              THEN SomeU32(max_bytes) ELSE NoneU32]]

read_text_file(lines, line, limit, client) ==
  read_text_file_capped(lines, line, limit, client, MAX_READ_BYTES)

NoPageLog ==
  [state |-> "idle", file |-> << >>, limit |-> NoneU32, line |-> NoneU32,
   got |-> << >>, pages |-> 0]

InitPageLog == pageLog = NoPageLog

(***************************************************************************)
(* initialize and authenticate (agent/lifecycle.rs).                       *)
(***************************************************************************)
\* session::is_custom_provider: every provider but "openai".
is_custom_provider(provider_id) == provider_id # "openai"

\* lifecycle.rs 20-47: the ids of the auth methods initialize advertises.
auth_methods(model_provider_id) ==
  {"chatgpt", "apikey"}
  \cup (IF is_custom_provider(model_provider_id) THEN {model_provider_id} ELSE {})

AuthError(code, data) == [code |-> code, data |-> data]
AuthOk == [code |-> "ok", data |-> ""]

\* lifecycle.rs 87-150: authenticate.  auth is what the auth manager holds
\* after the reload ("none", "apikey" or "chatgpt"), registered whether the
\* configured provider is a key of config.model_providers.
authenticate(method, model_provider_id, registered, auth) ==
  IF method = "apikey"
  THEN IF auth # "none" THEN AuthOk
       ELSE AuthError("auth_required", "Failed to load API key auth")
  ELSE IF method = "chatgpt"
  THEN IF auth = "chatgpt" THEN AuthOk
       ELSE AuthError("auth_required", "ChatGPT login not found")
  ELSE IF method = "custom_provider"
  THEN IF ~is_custom_provider(model_provider_id)
       THEN AuthError("invalid_params",
                      "Custom provider auth method is only available for custom providers")
       ELSE IF ~registered
       THEN AuthError("auth_required", "Custom provider is not configured in model_providers")
       ELSE IF auth # "none" THEN AuthOk
       ELSE AuthError("auth_required", "Custom provider requires authentication")
  ELSE AuthError("invalid_params", "unknown auth method")

NoAuthLog ==
  [loaded |-> FALSE, model_provider_id |-> "openai", registered |-> TRUE,
   initialized |-> FALSE, advertised |-> {},
   method |-> "<none>", auth |-> "none",
   result |-> [code |-> "<none>", data |-> ""]]
InitAuthLog == authLog = NoAuthLog

(***************************************************************************)
(* One session and its backend conversations (sessions.rs, core.rs,        *)
(* commands.rs).  Conversation ids are numbered in the order the           *)
(* conversation manager created them; 0 stands for None.                   *)
(***************************************************************************)
NoConvState ==
  [conversation |-> 0, conversation_id |-> 0, current_approval |-> "",
   current_sandbox |-> "", current_mode |-> NoneId, token_usage |-> "None"]

NoSubmit == [kind |-> "none", conversation |-> 0, news |-> 0]

\* session_id: the id of the session, which is the id of its first
\* conversation (sessions.rs 46); conversations: how many the manager has
\* created; news: how many /new commands have succeeded; submitted: the last
\* operation submitted, the conversation it went to and the number of /new
\* commands before it.
NoConvLog ==
  [session_id |-> 0, state |-> NoConvState, conversations |-> 0, news |-> 0,
   submitted |-> NoSubmit]
InitConvLog == convLog = NoConvLog

\* The mode of a session created from the configuration: the matching
\* preset, or "auto".
default_mode(cfg) ==
  IF current_mode_id_for_config(cfg) = NoneId THEN "auto"
  ELSE current_mode_id_for_config(cfg)

\* core.rs 67-96: get_conversation.  The cached conversation, else the one
\* the manager holds under the session id, which is then cached.
get_conversation(log) ==
  IF log.state.conversation # 0 THEN log.state.conversation ELSE log.session_id

\* commands.rs 20-69: the "new" arm of handle_slash_command.  ok: the
\* manager creates the conversation; only its id is kept.
slash_new(log, cfg, ok) ==
  IF ~ok THEN [log EXCEPT !.state.conversation = get_conversation(log)]
  ELSE [log EXCEPT
          !.conversations = log.conversations + 1,
          !.news = log.news + 1,
          !.state = [conversation     |-> 0,
                     conversation_id  |-> log.conversations + 1,
                     current_approval |-> cfg.approval,
                     current_sandbox  |-> cfg.sandbox,
                     current_mode     |-> default_mode(cfg),
                     token_usage      |-> "None"]]

\* get_conversation(session_id).await?.submit(op): prompt (prompt.rs 29),
\* cancel (prompt.rs 336-339) and the override of set_session_mode (core.rs 191).
submit_to_conversation(log, kind) ==
  [log EXCEPT !.state.conversation = get_conversation(log),
              !.submitted = [kind |-> kind, conversation |-> get_conversation(log),
                             news |-> log.news]]

\* The file text of a read_text_file result: its text without the hint and
\* the blank line before it.
file_text(result) ==
  IF ~result.hint.some THEN result.text
  ELSE IF Len(result.text) = 1 THEN << >>
  ELSE SubSeq(result.text, 1, Len(result.text) - 3)

(***************************************************************************)
(* The MCP filesystem server (fs/mcp_server.rs): staged edits.  A text is  *)
(* a sequence of characters.                                               *)
(***************************************************************************)
NoStaged == "<none>"
Missing == "<missing>"

\* str::find: the index of the first occurrence of the non-empty text t in
\* c, 0 for None.
find(c, t) ==
  LET hits == {i \in 1..Len(c) : /\ i + Len(t) - 1 <= Len(c)
                                 /\ SubSeq(c, i, i + Len(t) - 1) = t}
  IN IF hits = {} THEN 0 ELSE CHOOSE i \in hits : \A j \in hits : i <= j

\* String::replace_range(index..index + len(t), new).
replace_range(c, index, t, new) ==
  SubSeq(c, 1, index - 1) \o new \o SubSeq(c, index + Len(t), Len(c))

\* str::replace for a non-empty pattern: every non-overlapping occurrence,
\* from the left.
RECURSIVE replace(_, _, _)
replace(c, t, new) ==
  LET index == find(c, t)
  IN IF index = 0 THEN c
     ELSE SubSeq(c, 1, index - 1) \o new
            \o replace(SubSeq(c, index + Len(t), Len(c)), t, new)

\* The two messages of apply_edits (old_string is set in backquotes there).
EmptyOldString == "the provided old_string is empty. No edits were applied."
OldStringNotFound ==
  "The provided old_string does not appear in the file. No edits were applied."

\* A faulty variant: an instruction whose old text is not found is passed
\* over and the rest is applied.
RECURSIVE apply_edits_skipping(_, _)
apply_edits_skipping(content, edits) ==
  IF edits = << >> THEN [ok |-> TRUE, content |-> content, error |-> ""]
  ELSE LET edit == Head(edits)
       IN IF edit.old_text = << >>
          THEN [ok |-> FALSE, content |-> << >>, error |-> EmptyOldString]
          ELSE IF edit.replace_all
          THEN apply_edits_skipping(replace(content, edit.old_text, edit.new_text),
                                    Tail(edits))
          ELSE IF find(content, edit.old_text) = 0
          THEN apply_edits_skipping(content, Tail(edits))
          ELSE apply_edits_skipping(
                  replace_range(content, find(content, edit.old_text),
                                edit.old_text, edit.new_text),
                  Tail(edits))

\* mcp_server.rs 475-503: apply_edits, started with content = base.
RECURSIVE apply_edits(_, _)
apply_edits(content, edits) ==
  IF edits = << >> THEN [ok |-> TRUE, content |-> content, error |-> ""]
  ELSE LET edit == Head(edits)
       IN IF edit.old_text = << >>
          THEN [ok |-> FALSE, content |-> << >>, error |-> EmptyOldString]
          ELSE IF edit.replace_all
          THEN LET replaced == replace(content, edit.old_text, edit.new_text)
               IN IF replaced = content
                  THEN [ok |-> FALSE, content |-> << >>, error |-> OldStringNotFound]
                  ELSE apply_edits(replaced, Tail(edits))
          ELSE IF find(content, edit.old_text) = 0
          THEN [ok |-> FALSE, content |-> << >>, error |-> OldStringNotFound]
          ELSE apply_edits(
                  replace_range(content, find(content, edit.old_text),
                                edit.old_text, edit.new_text),
                  Tail(edits))

\* tool: the tool called; staged_before: the staged entry when the call
\* arrived; base: the base content stage_edits worked on (NoStaged when it
\* got none); writes: the contents of the bridge writes the call issued;
\* result: "ok", "no changes" or the error returned.
NoEdit ==
  [tool |-> "none", instructions |-> << >>, staged_before |-> NoStaged,
   base |-> NoStaged, writes |-> << >>, result |-> "none",
   content |-> << >>, text |-> ""]

InitEdit ==
  /\ staged_edits = NoStaged
  /\ mcpCalls = 0
  /\ lastEdit = NoEdit

\* mcp_server.rs 389-473: stage_edits for the path.  read_ok: the bridge
\* answers the read (a missing file is answered with a "not found" error);
\* write_ok: the bridge answers the write with success.
stage_edits(tool, instructions, read_ok, write_ok) ==
  LET call == [NoEdit EXCEPT !.tool = tool, !.instructions = instructions,
                             !.staged_before = staged_edits]
      base_content ==
        IF staged_edits # NoStaged THEN staged_edits
        ELSE IF mcpFile = Missing THEN << >>
        ELSE mcpFile
      new_content == apply_edits(base_content, instructions)
  IN IF staged_edits = NoStaged /\ ~read_ok
     THEN /\ lastEdit' = [call EXCEPT !.result = "failed to read current file content"]
          /\ UNCHANGED <<staged_edits, mcpFile>>
     ELSE IF ~new_content.ok
     THEN /\ lastEdit' = [call EXCEPT !.base = base_content,
                                      !.result = new_content.error]
          /\ UNCHANGED <<staged_edits, mcpFile>>
     ELSE IF new_content.content = base_content
     THEN /\ lastEdit' = [call EXCEPT !.base = base_content, !.result = "no changes"]
          /\ UNCHANGED <<staged_edits, mcpFile>>
     ELSE IF ~write_ok
     THEN /\ lastEdit' = [call EXCEPT !.base = base_content,
                                      !.writes = <<new_content.content>>,
                                      !.result = "bridge error"]
          /\ UNCHANGED <<staged_edits, mcpFile>>
     ELSE /\ lastEdit' = [call EXCEPT !.base = base_content,
                                      !.writes = <<new_content.content>>,
                                      !.result = "ok"]
          /\ staged_edits' = new_content.content
          /\ mcpFile' = new_content.content

\* mcp_server.rs 304-320: edit_text_file, one instruction without
\* replace_all.
edit_text_file(old_string, new_string, read_ok, write_ok) ==
  /\ mcpCalls < MaxToolCalls
  /\ mcpCalls' = mcpCalls + 1
  /\ stage_edits("edit_text_file",
                 <<[old_text |-> old_string, new_text |-> new_string,
                    replace_all |-> FALSE]>>,
                 read_ok, write_ok)

\* mcp_server.rs 321-343: multi_edit_text_file; an empty edits array is an
\* error.
multi_edit_text_file(edits, read_ok, write_ok) ==
  /\ mcpCalls < MaxToolCalls
  /\ mcpCalls' = mcpCalls + 1
  /\ IF edits = << >>
     THEN /\ lastEdit' = [NoEdit EXCEPT !.tool = "multi_edit_text_file",
                                        !.staged_before = staged_edits,
                                        !.result = "edits array must not be empty"]
          /\ UNCHANGED <<staged_edits, mcpFile>>
     ELSE stage_edits("multi_edit_text_file", edits, read_ok, write_ok)

\* A faulty variant: the content is staged before the bridge is asked, so a
\* failed write leaves it staged.
write_text_file_staging_first(content, write_ok) ==
  /\ mcpCalls < MaxToolCalls
  /\ mcpCalls' = mcpCalls + 1
  /\ LET staged_applied ==
           staged_edits # NoStaged /\ (content = << >> \/ content = staged_edits)
         final_content == IF staged_applied THEN staged_edits ELSE content
         call == [NoEdit EXCEPT !.tool = "write_text_file",
                                !.content = content,
                                !.staged_before = staged_edits,
                                !.writes = <<final_content>>]
     IN /\ staged_edits' = final_content
        /\ IF write_ok
           THEN /\ mcpFile' = final_content
                /\ lastEdit' = [call EXCEPT
                                  !.result = "ok",
                                  !.text = IF staged_applied
                                           THEN "write completed (applied staged edits)"
                                           ELSE "write completed"]
           ELSE /\ lastEdit' = [call EXCEPT !.result = "bridge error"]
                /\ UNCHANGED mcpFile

\* mcp_server.rs 266-303: write_text_file; empty content, or content equal
\* to the staged entry, writes the staged entry.
write_text_file(content, write_ok) ==
  /\ mcpCalls < MaxToolCalls
  /\ mcpCalls' = mcpCalls + 1
  /\ LET staged_applied ==
           staged_edits # NoStaged /\ (content = << >> \/ content = staged_edits)
         final_content == IF staged_applied THEN staged_edits ELSE content
         call == [NoEdit EXCEPT !.tool = "write_text_file",
                                !.content = content,
                                !.staged_before = staged_edits,
                                !.writes = <<final_content>>]
     IN IF write_ok
        THEN /\ staged_edits' = final_content
             /\ mcpFile' = final_content
             /\ lastEdit' = [call EXCEPT
                               !.result = "ok",
                               !.text = IF staged_applied
                                        THEN "write completed (applied staged edits)"
                                        ELSE "write completed"]
        ELSE /\ lastEdit' = [call EXCEPT !.result = "bridge error"]
             /\ UNCHANGED <<staged_edits, mcpFile>>

\* mcp_server.rs 65-70: serve_loop before its first line.
InitServe ==
  /\ mcpRequests = << >>
  /\ mcpStdout = << >>
  /\ mcpRunning = TRUE
  /\ inFlight = << >>

\* The results of handle_tool_call that are Ok(value).
ToolOk(result) == result \in {"ok", "no changes"}

\* A faulty variant: the error of the tool ends the loop (the ? operator)
\* instead of being answered.
tools_call_response_propagating(id, result) ==
  IF ToolOk(result)
  THEN [written |-> <<[id |-> id, kind |-> "result", code |-> 0]>>, running |-> TRUE]
  ELSE [written |-> << >>, running |-> FALSE]

\* mcp_server.rs 133-160: what serve_loop writes for the result of
\* handle_tool_call, and whether the loop goes on (write_message succeeds).
tools_call_response(id, result) ==
  IF ToolOk(result)
  THEN [written |-> <<[id |-> id, kind |-> "result", code |-> 0]>>, running |-> TRUE]
  ELSE [written |-> <<[id |-> id, kind |-> "error", code |-> -32001]>>,
        running |-> TRUE]

\* mcp_server.rs 72-160: one turn of serve_loop for a tools/call request,
\* after handle_tool_call has left its result in lastEdit'.  timed_out: the
\* bridge write of the call failed by the 5 s timeout of
\* perform_bridge_request (mcp_server.rs 731-734): the bridge still carries
\* the write (bridge.rs 114, 315-337).
serve_tools_call(id, timed_out) ==
  /\ mcpRunning
  /\ mcpRequests' = Append(mcpRequests,
                           [id |-> id, tool |-> lastEdit'.tool,
                            result |-> lastEdit'.result])
  /\ mcpStdout' = mcpStdout \o tools_call_response(id, lastEdit'.result).written
  /\ mcpRunning' = tools_call_response(id, lastEdit'.result).running
  /\ inFlight' = IF timed_out /\ lastEdit'.result = "bridge error"
                 THEN Append(inFlight, lastEdit'.writes[1])
                 ELSE inFlight

\* mcp_server.rs 178-195, 344: handle_tool_call without arguments, with
\* arguments serde rejects, or with the name of no tool.
rejected_tool_call(why) ==
  /\ mcpCalls < MaxToolCalls
  /\ mcpCalls' = mcpCalls + 1
  /\ lastEdit' = [NoEdit EXCEPT !.tool = "rejected", !.staged_before = staged_edits,
                                !.result = why]
  /\ UNCHANGED <<staged_edits, mcpFile>>

\* mcp_server.rs 196-212: read_text_file as far as the bridge request.
read_text_file_call(read_ok) ==
  /\ mcpCalls < MaxToolCalls
  /\ mcpCalls' = mcpCalls + 1
  /\ lastEdit' = [NoEdit EXCEPT !.tool = "read_text_file",
                                !.staged_before = staged_edits,
                                !.result = IF read_ok THEN "ok" ELSE "bridge error"]
  /\ UNCHANGED <<staged_edits, mcpFile>>

(***************************************************************************)
(* Two prompts of one session: both loops take their events from the       *)
(* session's one conversation (prompt.rs 29, 98-105; commands.rs 330-371). *)
(***************************************************************************)
LoopIds == {1, 2}
SubmissionIds == <<"sub1", "sub2">>

\* pc: idle, loop or done; kind: input (prompt.rs) or command
\* (commands.rs); emitted_terminal: the backend has emitted the terminal
\* event of the submission; lost: events of the submission that another
\* loop took.
IdleLoop ==
  [pc |-> "idle", kind |-> "none", submit_id |-> NoneId, result |-> "none",
   emitted_terminal |-> FALSE, lost |-> 0]

InitLoops == loops = [i \in LoopIds |-> IdleLoop]

\* The prompt in its loop that submitted `id`, 0 for none.
active_owner(id) ==
  IF \E i \in LoopIds : loops[i].pc = "loop" /\ loops[i].submit_id = id
  THEN CHOOSE i \in LoopIds : loops[i].pc = "loop" /\ loops[i].submit_id = id
  ELSE 0

\* prompt.rs 29-96 / commands.rs 293-328: get_conversation and submit.
loop_start(i, kind) ==
  /\ loops[i].pc = "idle"
  /\ loops' = [loops EXCEPT ![i] = [IdleLoop EXCEPT !.pc = "loop", !.kind = kind,
                                                     !.submit_id = SubmissionIds[i]]]
  /\ UNCHANGED <<events, emitted>>

\* The event is taken by loop i and is not handled as an event of its
\* owner.
taken_from_owner(i, event) ==
  LET owner == active_owner(event.id)
  IN IF owner \notin {0, i}
     THEN [loops EXCEPT ![owner].lost = @ + 1]
     ELSE loops

\* prompt.rs 98-105, 302-314: conversation.next_event(), the id filter (an
\* event of another id is dropped), and the match, which ends the loop on a
\* terminal event.
input_loop_next_event(i) ==
  /\ loops[i].pc = "loop"
  /\ loops[i].kind = "input"
  /\ events # << >>
  /\ events' = Tail(events)
  /\ LET event == Head(events)
     IN IF event.id # loops[i].submit_id
        THEN loops' = taken_from_owner(i, event)
        ELSE IF event.kind \in TerminalKinds
        THEN loops' = [loops EXCEPT ![i].pc = "done",
                          ![i].result = IF event.kind = "TaskComplete"
                                        THEN "EndTurn" ELSE "Cancelled"]
        ELSE UNCHANGED loops
  /\ UNCHANGED emitted

\* commands.rs 330-371: the loop of /compact and /review takes every event
\* whatever its id, and ends on TaskComplete, ShutdownComplete or Error.
command_loop_next_event(i) ==
  /\ loops[i].pc = "loop"
  /\ loops[i].kind = "command"
  /\ events # << >>
  /\ events' = Tail(events)
  /\ LET event == Head(events)
         taken == taken_from_owner(i, event)
     IN IF event.kind \in {"TaskComplete", "ShutdownComplete", "Error"}
        THEN loops' = [taken EXCEPT ![i].pc = "done", ![i].result = "EndTurn"]
        ELSE loops' = taken
  /\ UNCHANGED emitted

\* The backend emits an event of the submission of loop i, at most one
\* terminal event for each submission.
loop_emit(i, kind) ==
  /\ loops[i].pc = "loop"
  /\ ~loops[i].emitted_terminal
  /\ emitted < MaxEvents
  /\ Len(events) < MaxQueue
  /\ events' = Append(events, [id |-> loops[i].submit_id, kind |-> kind,
                                call_id |-> emitted + 1])
  /\ emitted' = emitted + 1
  /\ loops' = [loops EXCEPT ![i].emitted_terminal = kind \in TerminalKinds]

(***************************************************************************)
(* Specification SpecFs: sessions, mode changes, bridge requests and the   *)
(* file branch of the dispatcher.                                          *)
(***************************************************************************)
FsPaths == {[abs |-> FALSE, comps |-> <<"a">>]}

\* Requests are tagged with an fs_session_id, an ACP id or an unknown id; a
\* read carries no content, a write may lack it.
FsRequests ==
  {[n |-> 0, session_id |-> s, op |-> "read", path |-> f, content |-> NoContent] :
     s \in {"f1", "s2", UnknownId}, f \in FsPaths}
  \cup
  {[n |-> 0, session_id |-> s, op |-> "write", path |-> f, content |-> c] :
     s \in {"f1", "s2", UnknownId}, f \in FsPaths, c \in Contents \cup {NoContent}}

InitStore ==
  /\ config \in ConfigChoices
  /\ sessions = << >>
  /\ turn_context = << >>
  /\ modeCalls = {}
  /\ cmdTask = [s \in SessionIds |-> "none"]
  /\ new_session_response = [s \in SessionIds |-> "none"]

InitChannels ==
  /\ client_rx = << >>
  /\ response = [t \in BridgeTasks \cup {PromptTask} |-> NoReply]
  /\ disp = IdleDisp
  /\ lastDispatch = NoDispatch

InitBridge ==
  /\ bridge = [t \in BridgeTasks |-> IdleBridge]
  /\ bridgeCount = 0
  /\ disk = NoDisk

InitNotif ==
  /\ rx = << >>
  /\ ack = [t \in Producers |-> "none"]
  /\ sent = 0
  /\ written = 0

InitPromptTask ==
  /\ events = << >>
  /\ emitted = 0
  /\ backend = IdleBackend
  /\ p = IdlePrompt
  /\ approvals = NoApprovals

\* The components outside the first specifications, as constructed.
InitExt ==
  /\ InitTools
  /\ InitEdit
  /\ mcpFile = Missing
  /\ InitCtx
  /\ InitBorrow
  /\ InitReason
  /\ InitAgg
  /\ InitRead
  /\ InitServe
  /\ InitLoops
  /\ InitOverrideResponse
  /\ InitMessageLog
  /\ InitPageLog
  /\ InitAuthLog
  /\ InitConvLog

InitFs ==
  /\ InitStore
  /\ InitExt
  /\ InitNotif
  /\ InitPromptTask
  /\ config = [approval |-> "on-request", sandbox |-> "workspace-write"]
  /\ InitChannels
  /\ InitBridge
  /\ workspace_root = <<"w">>

\* Uuid::new_v4() for the fs_session_id: the ids are interchangeable, so the
\* model takes the first one not in use.
FreshFsIds ==
  LET free == FsIds \ {sessions[k].fs_session_id : k \in DOMAIN sessions}
  IN IF free = {} THEN {}
     ELSE {CHOOSE f \in free : \A g \in free : f = g \/ (f = "f1")}

NewSession ==
  \E sid \in SessionIds, fsid \in FreshFsIds :
     /\ new_session(sid, fsid)
     /\ UNCHANGED <<extVars, bridgeVars, chanVars, fileLogVars, notifVars, promptVars>>

SetSessionModeSubmit ==
  \E sid \in SessionIds, mode_id \in PresetIds :
     /\ set_session_mode_submit(sid, mode_id)
     /\ UNCHANGED <<extVars, bridgeVars, chanVars, fileLogVars, taskVars, notifVars, promptVars>>

\* A request stops counting as "read-only since it arrived" when its
\* session leaves read-only mode.
SetSessionModeCommit ==
  \E call \in modeCalls :
     /\ set_session_mode_commit(call)
     /\ bridge' = [t \in BridgeTasks |->
          IF /\ bridge[t].roSince
             /\ call.mode_id # "read-only"
             /\ OwnerOf(bridge[t].req.session_id) = call.session_id
          THEN [bridge[t] EXCEPT !.roSince = FALSE]
          ELSE bridge[t]]
     /\ UNCHANGED <<extVars, workspace_root, bridgeCount, disk, chanVars, fileLogVars>>
     /\ UNCHANGED <<taskVars, notifVars, promptVars>>

BridgeRequest ==
  \E t \in BridgeTasks, req \in FsRequests :
     /\ handle_request(t, req)
     /\ UNCHANGED <<extVars, storeVars, fileLogVars, taskVars, notifVars, promptVars>>

BridgeFallback ==
  \E t \in BridgeTasks, ioOk \in BOOLEAN :
     /\ with_fallback(t, ioOk)
     /\ UNCHANGED <<extVars, storeVars, fileLogVars, taskVars, notifVars, promptVars>>

DispatchRead ==
  /\ DispatchReadTextFile
  /\ UNCHANGED <<extVars, storeVars, bridgeVars, taskVars, notifVars, promptVars>>

DispatchWrite ==
  /\ DispatchWriteTextFile
  /\ UNCHANGED <<extVars, storeVars, bridgeVars, taskVars, notifVars, promptVars>>

ClientFileAnswer ==
  \E ok \in BOOLEAN :
     /\ ClientFileReply(ok)
     /\ UNCHANGED <<extVars, storeVars, bridgeVars, taskVars, notifVars, promptVars>>

vars ==
  <<storeVars, bridgeVars, chanVars, fileLogVars, taskVars, notifVars, promptVars,
    extVars>>

NextFs ==
  \/ NewSession
  \/ SetSessionModeSubmit
  \/ SetSessionModeCommit
  \/ BridgeRequest
  \/ BridgeFallback
  \/ DispatchRead
  \/ DispatchWrite
  \/ ClientFileAnswer

SpecFs == InitFs /\ [][NextFs]_vars

(***************************************************************************)
(* Specification SpecPath: one bridge request with any path, under any     *)
(* workspace root, carried through the dispatcher and the local fallback.  *)
(***************************************************************************)
PathRequests ==
  {[n |-> 0, session_id |-> "f1", op |-> o, path |-> [abs |-> a, comps |-> c],
    content |-> IF o = "write" THEN "x" ELSE NoContent] :
     o \in {"read", "write"}, a \in BOOLEAN, c \in SeqsUpTo(PathComps, MaxPathLen)}

InitPath ==
  /\ InitStore
  /\ InitExt
  /\ InitNotif
  /\ InitPromptTask
  /\ config = [approval |-> "on-request", sandbox |-> "workspace-write"]
  /\ InitChannels
  /\ InitBridge
  /\ workspace_root \in WorkspaceRoots

PathBridgeRequest ==
  \E req \in PathRequests :
     /\ bridgeCount = 0
     /\ handle_request("b1", req)
     /\ UNCHANGED <<extVars, storeVars, fileLogVars, taskVars, notifVars, promptVars>>

NextPath ==
  \/ NewSession
  \/ PathBridgeRequest
  \/ BridgeFallback
  \/ DispatchRead
  \/ DispatchWrite
  \/ ClientFileAnswer

SpecPath == InitPath /\ [][NextPath]_vars

(***************************************************************************)
(* Specification SpecPrompt: one session, one prompt, the backend's events *)
(* and the notification and permission branches of the dispatcher.         *)
(* SpecPromptFair adds the scheduling of the local task set: a task that   *)
(* can run does run, and a write to the connection returns.  Nothing is    *)
(* assumed of the ACP client's answers or of the backend.                  *)
(***************************************************************************)
PromptSession == "s1"

InitPrompt ==
  /\ InitStore
  /\ InitExt
  /\ InitNotif
  /\ InitPromptTask
  /\ config = [approval |-> "on-request", sandbox |-> "workspace-write"]
  /\ InitChannels
  /\ InitBridge
  /\ workspace_root = <<"w">>

NewPromptSession ==
  \E fsid \in FreshFsIds :
     /\ new_session(PromptSession, fsid)
     /\ UNCHANGED <<extVars, bridgeVars, chanVars, fileLogVars, notifVars, promptVars>>

CommandsTaskSend ==
  \E sid \in SessionIds :
     /\ commands_task_send(sid)
     /\ UNCHANGED <<extVars, storeVars, bridgeVars, chanVars, fileLogVars, promptVars>>

CommandsTaskDone ==
  \E sid \in SessionIds :
     /\ commands_task_done(sid)
     /\ UNCHANGED <<extVars, storeVars, bridgeVars, chanVars, fileLogVars, promptVars>>

PromptStart ==
  \E kind \in PromptKinds :
     /\ prompt_start(PromptSession, kind)
     /\ UNCHANGED <<extVars, storeVars, bridgeVars, disp, fileLogVars, taskVars>>

PromptNextEvent ==
  /\ prompt_next_event
  /\ UNCHANGED <<extVars, storeVars, bridgeVars, disp, fileLogVars, taskVars>>

CommandNextEvent ==
  /\ command_next_event
  /\ UNCHANGED <<extVars, storeVars, bridgeVars, disp, fileLogVars, taskVars>>

PromptAck ==
  /\ prompt_ack
  /\ UNCHANGED <<extVars, storeVars, bridgeVars, disp, fileLogVars, taskVars>>

PromptPermissionReply ==
  /\ prompt_permission_reply
  /\ UNCHANGED <<extVars, storeVars, bridgeVars, disp, fileLogVars, taskVars>>

Cancel ==
  /\ cancel(PromptSession)
  /\ UNCHANGED <<extVars, storeVars, bridgeVars, chanVars, fileLogVars, taskVars, notifVars>>

BackendEmit ==
  \E id \in EventIds, kind \in EventKinds :
     /\ Emit(id, kind)
     /\ UNCHANGED <<extVars, storeVars, bridgeVars, chanVars, fileLogVars, taskVars, notifVars>>

BackendCloses ==
  /\ BackendClose
  /\ UNCHANGED <<extVars, storeVars, bridgeVars, chanVars, fileLogVars, taskVars, notifVars>>

DispatchUpdate ==
  /\ DispatchNotification
  /\ UNCHANGED <<extVars, storeVars, bridgeVars, taskVars, promptVars>>

NotificationReturns ==
  \E ok \in BOOLEAN :
     /\ session_notification_returns(ok)
     /\ UNCHANGED <<extVars, storeVars, bridgeVars, taskVars, promptVars>>

DispatchPermission ==
  /\ DispatchRequestPermission
  /\ UNCHANGED <<extVars, storeVars, bridgeVars, taskVars, notifVars, promptVars>>

PermissionReturns ==
  \E res \in PermissionReplies :
     /\ request_permission_returns(res)
     /\ UNCHANGED <<extVars, storeVars, bridgeVars, taskVars, notifVars, promptVars>>

NextPrompt ==
  \/ NewPromptSession
  \/ PromptStart
  \/ PromptNextEvent
  \/ CommandNextEvent
  \/ PromptAck
  \/ PromptPermissionReply
  \/ Cancel
  \/ BackendEmit
  \/ BackendCloses
  \/ DispatchUpdate
  \/ NotificationReturns
  \/ DispatchPermission
  \/ PermissionReturns

SpecPrompt == InitPrompt /\ [][NextPrompt]_vars

(***************************************************************************)
(* Specification SpecNotify: the update channel with its producers, the    *)
(* prompt and the tasks spawned by new_session, and the events that make   *)
(* the prompt send updates.                                                *)
(***************************************************************************)
NotifyKinds == {"AgentMessageDelta", "ExecCommandBegin", "Error", "TaskComplete"}

BackendEmitUpdates ==
  \E id \in EventIds, kind \in NotifyKinds :
     /\ Emit(id, kind)
     /\ UNCHANGED <<extVars, storeVars, bridgeVars, chanVars, fileLogVars, taskVars, notifVars>>

NextNotify ==
  \/ NewSession
  \/ CommandsTaskSend
  \/ CommandsTaskDone
  \/ PromptStart
  \/ PromptNextEvent
  \/ CommandNextEvent
  \/ PromptAck
  \/ BackendEmitUpdates
  \/ DispatchUpdate
  \/ NotificationReturns

SpecNotify == InitPrompt /\ [][NextNotify]_vars

SpecPromptFair ==
  /\ InitPrompt
  /\ [][NextPrompt]_vars
  /\ WF_vars(PromptNextEvent)
  /\ WF_vars(PromptAck)
  /\ WF_vars(PromptPermissionReply)
  /\ WF_vars(DispatchUpdate)
  /\ WF_vars(NotificationReturns)
  /\ WF_vars(DispatchPermission)

(***************************************************************************)
(* Claims about the mode gate and the bridge.                              *)
(***************************************************************************)
ReadOnlyData == "write_text_file is disabled while session mode is read-only"

\* C1: every WriteTextFile client-op whose session id resolves to a session
\* of the store is answered with invalid-params and the fixed data string,
\* and not forwarded, when that session is in read-only mode at that moment,
\* and is forwarded to the ACP client with the resolved id in any other mode.
C1_ModeGate ==
  (lastDispatch.kind = "WriteTextFile" /\ lastDispatch.owner # NoneId) =>
     IF lastDispatch.ownerMode = "read-only"
     THEN /\ lastDispatch.outcome = "replied"
          /\ lastDispatch.reply = ErrReply("invalid_params", ReadOnlyData)
          /\ lastDispatch.fwd = NoFwd
     ELSE /\ lastDispatch.outcome = "forwarded"
          /\ lastDispatch.fwd.kind = "write_text_file"
          /\ lastDispatch.fwd.session_id = lastDispatch.owner

\* A write tagged with an fs_session_id was rejected under read-only mode.
C1_Witness ==
  /\ lastDispatch.kind = "WriteTextFile"
  /\ lastDispatch.owner \in DOMAIN sessions
  /\ lastDispatch.ownerMode = "read-only"
  /\ lastDispatch.outcome = "replied"
  /\ \E t \in BridgeTasks : response[t] = ErrReply("invalid_params", ReadOnlyData)

\* C2: a write request whose session has been in read-only mode since the
\* request arrived at the bridge modifies no file: it is not forwarded to
\* the ACP client and the bridge does not write it to local disk.
C2_ReadOnlyWritesNothing ==
  /\ ~(disk.op = "write" /\ disk.ok /\ disk.ro)
  /\ \A t \in BridgeTasks :
        (bridge[t].pc = "await" /\ bridge[t].req.op = "write" /\ bridge[t].roSince)
           => ~(disp.pc = "await_write" /\ disp.op.n = bridge[t].req.n)

\* The path the operating system opens for an absolute path: "." is
\* skipped and ".." goes to the parent (the root is its own parent).
RECURSIVE Normalize(_, _)
Normalize(acc, comps) ==
  IF comps = << >> THEN acc
  ELSE LET c == Head(comps)
       IN IF c = "." THEN Normalize(acc, Tail(comps))
          ELSE IF c = ".."
               THEN Normalize(IF acc = << >> THEN acc ELSE PopLast(acc), Tail(comps))
               ELSE Normalize(Append(acc, c), Tail(comps))

IsPrefix(a, b) == Len(a) <= Len(b) /\ SubSeq(b, 1, Len(a)) = a

Inside(root, path) == IsPrefix(root, Normalize(<< >>, path))

\* C3: whatever the workspace root and the request path, a path the bridge
\* goes on with after resolution lies inside the workspace root, and so
\* does every path the local-disk fallback reads or writes.
C3_PathContainment ==
  /\ \A t \in BridgeTasks :
        bridge[t].pc = "await" => Inside(workspace_root, bridge[t].resolved)
  /\ disk.op # "none" => Inside(workspace_root, disk.path)

(***************************************************************************)
(* Claims about the prompt, the update channel and approvals.              *)
(***************************************************************************)
\* The task serving the prompt takes the oldest event off the queue.
EventTaken ==
  /\ p.pc \in {"loop", "cmd_loop"}
  /\ events # << >>
  /\ events' = Tail(events)

\* C4: in the main loop and in the loop of /compact and /review alike, taking
\* an event whose id is not the submit id of the prompt's op enqueues no
\* session update, sends no permission request, submits no approval op and
\* does not leave the loop.
C4_ForeignEventsIgnored ==
  [][(EventTaken /\ Head(events).id # p.submit_id) =>
        /\ UNCHANGED <<rx, sent, client_rx, approvals>>
        /\ p'.pc = p.pc
        /\ p'.result = p.result]_vars

\* C5: notifications are written in the order of their enqueue numbers; an
\* ack is fulfilled only in the step that completes the write of its own
\* notification; and the prompt enqueues an update only when the update it
\* enqueued before has been written.
C5_NotificationOrder ==
  /\ [][written' # written => written' = written + 1]_vars
  /\ [][\A t \in Producers :
          (ack'[t] = "done" /\ ack[t] # "done") =>
             /\ disp.pc = "notify"
             /\ disp.notif.from = t
             /\ written' = disp.notif.n]_vars
  /\ [](ack[PromptTask] = "done" => written >= p.lastN)
  /\ [][(p'.lastN # p.lastN /\ p.lastN # 0) => written >= p.lastN]_vars

\* The prompt's third update was enqueued behind the update of a session's
\* command task, and all of them have been written.
C5_Witness ==
  /\ written >= 3
  /\ p.lastN = written
  /\ ack[PromptTask] = "done"
  /\ \E sid \in SessionIds : cmdTask[sid] = "done"

\* C6: every approval request the prompt has taken up and is no longer
\* waiting on has exactly one approval op, and each op's decision is
\* Approved, ApprovedForSession or Abort (an error from the client or a
\* closed reply channel therefore gives an op with Abort).
C6_OneApprovalPerRequest ==
  /\ approvals.ops <= approvals.requests
  /\ p.pc # "perm" => approvals.ops = approvals.requests
  /\ approvals.last.decision \in {"none", "Approved", "ApprovedForSession", "Abort"}

\* C7: an approval op is submitted only by the prompt waiting on a permission
\* reply; it is of the kind of the request taken up last, carries that
\* event's id, and its decision is derived from the reply found in the
\* channel of that request; and the dispatcher puts into that channel only
\* the client's answer to that very request.
C7_ApprovalCorrelation ==
  /\ [][approvals'.ops # approvals.ops =>
          /\ p.pc = "perm"
          /\ approvals'.ops = approvals.ops + 1
          /\ approvals'.last.id = approvals.req.id
          /\ approvals'.last.n = approvals.req.call_id
          /\ approvals'.last.kind =
                (IF approvals.req.kind = "ExecApprovalRequest" THEN "ExecApproval"
                 ELSE "PatchApproval")
          /\ response[PromptTask].state = "sent"
          /\ response[PromptTask].ok
          /\ approvals'.last.decision = handle_response_outcome(response[PromptTask])]_vars
  /\ [][(disp.pc = "await_perm" /\ response'[PromptTask] # response[PromptTask]) =>
          /\ p.pc = "perm"
          /\ disp.op.n = approvals.req.call_id
          /\ response'[PromptTask] \in PermissionReplies]_vars

\* A patch approval was submitted with the decision "approved for session".
C7_Witness ==
  /\ approvals.ops >= 1
  /\ approvals.last.kind = "PatchApproval"
  /\ approvals.last.decision = "ApprovedForSession"
  /\ approvals.last.id = SubmitId

\* An event of the prompt (one carrying its submit id) is taken in the main
\* loop.
OwnEventTaken(kind) ==
  /\ p.pc = "loop"
  /\ events # << >>
  /\ events' = Tail(events)
  /\ Head(events).id = p.submit_id
  /\ Head(events).kind = kind

\* C8: when an AgentMessage of the prompt is taken after a delta of the
\* prompt has been processed, nothing is enqueued; when none has been
\* processed, exactly one message chunk is enqueued (the update channel being
\* open).
C8_DeltaDedup ==
  [][OwnEventTaken("AgentMessage") =>
       IF p.gotDelta
       THEN UNCHANGED <<rx, sent>> /\ p'.pc = "loop"
       ELSE disp.pc # "stopped" =>
              /\ rx' = Append(rx, [n |-> sent + 1, from |-> PromptTask,
                                   session_id |-> p.session_id,
                                   update |-> "chunk:message"])
              /\ p'.pc = "ack"]_vars

\* A delta was sent as a chunk and a later AgentMessage was passed over.
C8_Witness ==
  /\ p.gotDelta
  /\ p.suppressed
  /\ p.lastN >= 1

StopReasons == {"EndTurn", "Cancelled"}

\* C9: the main loop yields a stop reason only by taking a terminal event
\* of the prompt, the first such event, with EndTurn for TaskComplete and
\* Cancelled for ShutdownComplete and TurnAborted; and a response is
\* returned with that stop reason only when every update the prompt
\* enqueued has been written and acknowledged.
C9_LoopExit ==
  /\ [][(p.kind = "input" /\ p'.stop_reason # p.stop_reason) =>
          /\ EventTaken
          /\ p.pc = "loop"
          /\ Head(events).id = p.submit_id
          /\ Head(events).kind \in TerminalKinds
          /\ p.terminals = 0
          /\ p'.stop_reason =
                (IF Head(events).kind = "TaskComplete" THEN "EndTurn" ELSE "Cancelled")]_vars
  /\ []((p.kind = "input" /\ p.result \in StopReasons) =>
          /\ p.pc = "done"
          /\ p.result = p.stop_reason
          /\ p.terminals = 1
          /\ written >= p.lastN
          /\ ack[PromptTask] = "none"
          /\ disp.notif.from # PromptTask
          /\ \A i \in DOMAIN rx : rx[i].from # PromptTask)

\* A prompt that sent chunks and a last thought chunk returned Cancelled.
C9_Witness ==
  /\ p.kind = "input"
  /\ p.pc = "done"
  /\ p.result = "Cancelled"
  /\ p.lastN >= 2
  /\ written = p.lastN

\* C10: once cancel has been issued for the session of an active prompt and
\* the backend has then emitted TurnAborted with the prompt's submit id, the
\* prompt eventually returns Cancelled (or fails because the connection or
\* the conversation is gone), whatever it is waiting for.
C10_CancelReturns ==
  backend.aborted ~>
     (p.pc = "done" /\ (p.result = "Cancelled" \/ p.result = "error"))

(***************************************************************************)
(* Specification SpecTools: a prompt whose backend runs tool calls; tools  *)
(* records, per call id, the status carried by the last ToolCall or        *)
(* ToolCallUpdate the prompt enqueued for it.                              *)
(***************************************************************************)
ToolsPromptStart ==
  /\ prompt_start(PromptSession, "input")
  /\ UNCHANGED <<extVars, storeVars, bridgeVars, disp, fileLogVars, taskVars>>

\* prompt.rs 98-188: next_event, the id filter and the match; a tool event
\* of the prompt whose update is enqueued announces its status.
ToolsNextEvent ==
  /\ prompt_next_event
  /\ tools' =
       IF /\ events # << >>
          /\ Head(events).id = p.submit_id
          /\ Head(events).kind \in ToolBeginKinds \cup ToolEndKinds
          /\ sent' = sent + 1
       THEN [tools EXCEPT ![Head(events).call_id] = tool_status(Head(events))]
       ELSE tools
  /\ UNCHANGED <<editVars, ctxVars, borrowVars, reasonVars, unitVars, serveVars, storeVars,
                 bridgeVars, disp, fileLogVars, taskVars>>

BackendEmitTool ==
  \E id \in EventIds, kind \in ToolBeginKinds \cup ToolEndKinds,
     call \in ToolCallIds, success \in BOOLEAN :
     /\ kind \in ToolBeginKinds => success
     /\ EmitToolEvent(id, kind, call, success)
     /\ UNCHANGED <<extVars, storeVars, bridgeVars, chanVars, fileLogVars, taskVars,
                    notifVars>>

BackendEmitTerminal ==
  \E kind \in TerminalKinds :
     /\ Emit(SubmitId, kind)
     /\ UNCHANGED <<extVars, storeVars, bridgeVars, chanVars, fileLogVars, taskVars,
                    notifVars>>

NextTools ==
  \/ NewPromptSession
  \/ ToolsPromptStart
  \/ ToolsNextEvent
  \/ PromptAck
  \/ Cancel
  \/ BackendEmitTool
  \/ BackendEmitTerminal
  \/ DispatchUpdate
  \/ NotificationReturns

SpecTools == InitPrompt /\ [][NextTools]_vars

(***************************************************************************)
(* Claims about tool calls.                                                *)
(***************************************************************************)
\* C11: when the prompt has returned a stop reason (EndTurn or Cancelled),
\* no tool call is left with in_progress as the last status announced to the
\* client.
C11_ToolCallsClosed ==
  (p.kind = "input" /\ p.pc = "done" /\ p.result \in StopReasons) =>
     \A c \in ToolCallIds : tools[c] # "in_progress"

(***************************************************************************)
(* Specification SpecEdit: the MCP filesystem server serving tools/call    *)
(* requests for one path, one after the other (serve_loop).                *)
(***************************************************************************)
EditTexts == {<< >>, <<"a">>, <<"a", "b">>}
NewTexts == {<<"a">>, <<"b">>}
EditInstructions == [old_text : EditTexts, new_text : NewTexts, replace_all : BOOLEAN]
McpFiles == {Missing, <<"a">>, <<"a", "b", "a">>}
WriteContents == {<< >>, <<"a", "a">>}

InitEditSpec ==
  /\ InitStore
  /\ InitNotif
  /\ InitPromptTask
  /\ config = [approval |-> "on-request", sandbox |-> "workspace-write"]
  /\ InitChannels
  /\ InitBridge
  /\ workspace_root = <<"w">>
  /\ InitTools
  /\ InitEdit
  /\ mcpFile \in McpFiles
  /\ InitCtx
  /\ InitBorrow
  /\ InitReason
  /\ InitAgg
  /\ InitRead
  /\ InitServe
  /\ InitLoops
  /\ InitOverrideResponse
  /\ InitMessageLog
  /\ InitPageLog
  /\ InitAuthLog
  /\ InitConvLog

NotEditVars ==
  <<storeVars, bridgeVars, chanVars, fileLogVars, taskVars, notifVars, promptVars,
    toolVars, ctxVars, borrowVars, reasonVars, unitVars, serveVars>>

EditTextFile ==
  \E old_string \in EditTexts, new_string \in NewTexts,
     read_ok \in BOOLEAN, write_ok \in BOOLEAN :
     /\ lastEdit.tool = "none"
     /\ edit_text_file(old_string, new_string, read_ok, write_ok)
     /\ UNCHANGED NotEditVars

MultiEditTextFile ==
  \E edits \in SeqsUpTo(EditInstructions, MaxEdits),
     read_ok \in BOOLEAN, write_ok \in BOOLEAN :
     /\ lastEdit.tool = "none"
     /\ multi_edit_text_file(edits, read_ok, write_ok)
     /\ UNCHANGED NotEditVars

WriteTextFile ==
  \E content \in WriteContents, write_ok \in BOOLEAN :
     /\ lastEdit.tool = "none"
     /\ write_text_file(content, write_ok)
     /\ UNCHANGED NotEditVars

\* mcp_server.rs 133-160: the result is written to the client and the loop
\* takes the next message.
McpRespond ==
  /\ lastEdit.tool # "none"
  /\ lastEdit' = NoEdit
  /\ UNCHANGED <<staged_edits, mcpFile, mcpCalls>>
  /\ UNCHANGED NotEditVars

NextEdit ==
  \/ EditTextFile
  \/ MultiEditTextFile
  \/ WriteTextFile
  \/ McpRespond

SpecEdit == InitEditSpec /\ [][NextEdit]_vars

(***************************************************************************)
(* Claims about staged edits.                                              *)
(***************************************************************************)
EditTools == {"edit_text_file", "multi_edit_text_file"}

\* The instruction cannot be applied to the content: its old text is empty
\* or does not occur.
InstructionFails(content, edit) ==
  edit.old_text = << >> \/ find(content, edit.old_text) = 0

\* The content after the instruction.
ApplyOne(content, edit) ==
  IF edit.replace_all THEN replace(content, edit.old_text, edit.new_text)
  ELSE replace_range(content, find(content, edit.old_text), edit.old_text,
                     edit.new_text)

\* Some instruction fails on the content produced by those before it.
RECURSIVE SomeInstructionFails(_, _)
SomeInstructionFails(content, edits) ==
  /\ edits # << >>
  /\ \/ InstructionFails(content, Head(edits))
     \/ SomeInstructionFails(ApplyOne(content, Head(edits)), Tail(edits))

\* Some instruction fails, or some replace_all instruction leaves the
\* content produced by those before it as it is.
RECURSIVE SomeInstructionRejected(_, _)
SomeInstructionRejected(content, edits) ==
  /\ edits # << >>
  /\ \/ InstructionFails(content, Head(edits))
     \/ Head(edits).replace_all /\ ApplyOne(content, Head(edits)) = content
     \/ SomeInstructionRejected(ApplyOne(content, Head(edits)), Tail(edits))

\* All instructions applied in order.
RECURSIVE AllApplied(_, _)
AllApplied(content, edits) ==
  IF edits = << >> THEN content
  ELSE AllApplied(ApplyOne(content, Head(edits)), Tail(edits))

\* An edit call that got its base content has been served.
EditServed == lastEdit.tool \in EditTools /\ lastEdit.base # NoStaged

StoreConfigs ==
  {[approval |-> "on-request", sandbox |-> "workspace-write"],
   [approval |-> "never", sandbox |-> "read-only"]}

InitStoreSpec ==
  /\ InitStore
  /\ config \in StoreConfigs
  /\ InitNotif
  /\ InitPromptTask
  /\ InitChannels
  /\ InitBridge
  /\ workspace_root = <<"w">>
  /\ InitExt

NotStoreVars ==
  <<bridgeVars, chanVars, fileLogVars, notifVars, promptVars, toolVars, editVars,
    reasonVars, unitVars, serveVars>>

StoreNewSession ==
  \E sid \in SessionIds, fsid \in FreshFsIds :
     /\ new_session(sid, fsid)
     /\ sessions_borrow' = insert_statement(sessions_borrow)
     /\ UNCHANGED <<ctxVars, NotStoreVars>>

SetSessionModeBegin ==
  \E sid \in SessionIds, mode_id \in {"read-only", "full-access", "bogus"} :
     /\ set_session_mode_begin(sid, mode_id)
     /\ UNCHANGED <<taskVars, NotStoreVars>>

SetSessionModelBegin ==
  \E sid \in SessionIds, model_id \in ModelIds :
     /\ set_session_model_begin(sid, model_id)
     /\ UNCHANGED <<taskVars, NotStoreVars>>

ContextOverrideSubmit ==
  \E call \in ctxCalls, ok \in BOOLEAN :
     /\ apply_context_override_submit(call, ok)
     /\ UNCHANGED <<taskVars, NotStoreVars>>

ContextOverrideCommit ==
  \E call \in ctxCalls :
     /\ apply_context_override_commit(call)
     /\ UNCHANGED <<taskVars, NotStoreVars>>

NextStore ==
  \/ StoreNewSession
  \/ SetSessionModeBegin
  \/ SetSessionModelBegin
  \/ ContextOverrideSubmit
  \/ ContextOverrideCommit

SpecStore == InitStoreSpec /\ [][NextStore]_vars

(***************************************************************************)
(* Claims about the session store.                                         *)
(***************************************************************************)
\* C13: in every state each session's (current_approval, current_sandbox)
\* is the pair of the preset named by its current_mode.
C13_ModeMatchesPolicies ==
  \A k \in DOMAIN sessions :
     LET i == find_preset_by_mode_id(sessions[k].current_mode)
     IN /\ i # 0
        /\ sessions[k].current_approval = APPROVAL_PRESETS[i].approval
        /\ sessions[k].current_sandbox = APPROVAL_PRESETS[i].sandbox


FileOpTaken ==
  /\ disp.pc = "select"
  /\ client_rx # << >>
  /\ Head(client_rx).kind \in {"ReadTextFile", "WriteTextFile"}
  /\ client_rx' = Tail(client_rx)

\* C15: a file request is forwarded to the ACP client only with a session
\* id that is a key of the store: the id it came with when that is a key,
\* else the key of the session owning it as fs_session_id; a request whose
\* id matches no session is answered invalid-params and not forwarded.
C15_ForwardedIdsAreKeys ==
  /\ [](disp.pc \in {"await_read", "await_write"} =>
          disp.fwd.session_id \in DOMAIN sessions)
  /\ [][FileOpTaken =>
          LET op == Head(client_rx)
              owners == {k \in DOMAIN sessions : sessions[k].fs_session_id = op.session_id}
          IN IF op.session_id \in DOMAIN sessions
             THEN disp'.pc # "select" => disp'.fwd.session_id = op.session_id
             ELSE IF owners # {}
             THEN disp'.pc # "select" => disp'.fwd.session_id \in owners
             ELSE /\ disp' = disp
                  /\ response'[op.from].state = "sent"
                  /\ ~response'[op.from].ok
                  /\ response'[op.from].code = "invalid_params"]_vars

\* A read that came with an fs_session_id is with the ACP client under the
\* id of the owning session.
C15_Witness ==
  /\ disp.pc = "await_read"
  /\ disp.op.session_id \in FsIds
  /\ disp.fwd.session_id \in DOMAIN sessions
  /\ sessions[disp.fwd.session_id].fs_session_id = disp.op.session_id

(***************************************************************************)
(* Claims about the borrows of the session map.                            *)
(***************************************************************************)
\* C16: at every suspension point of every task the session map is not
\* borrowed, neither shared nor exclusive, and no borrow has met a
\* conflicting one (no BorrowError or BorrowMutError panic): each read or
\* mutation of the store starts and ends inside one non-suspending step.
C16_NoBorrowAcrossSuspension ==
  /\ sessions_borrow.readers = 0
  /\ ~sessions_borrow.writer
  /\ ~sessions_borrow.panicked

\* Two calls are suspended between their read of the store and their
\* update of it, and a third step has mutated the store meanwhile.
C16_Witness ==
  /\ \E c1 \in ctxCalls, c2 \in ctxCalls :
        /\ c1.kind = "mode" /\ c2.kind = "model"
        /\ c1.pc = "submitted" /\ c2.pc = "built"
        /\ c1.session_id = c2.session_id
        /\ sessions[c1.session_id].current_model # c2.op.model
        /\ sessions[c1.session_id].current_model # ConfigModel.model
  /\ sessions_borrow = Unborrowed

(***************************************************************************)
(* Claims about the notification that follows new_session.                 *)
(***************************************************************************)
CommandsUpdateOf(notif, sid) ==
  notif.update = "AvailableCommandsUpdate" /\ notif.session_id = sid

\* C17: for every session, the AvailableCommandsUpdate is enqueued only in
\* a state where new_session has already returned the NewSessionResponse
\* of that session to the ACP connection, and so is on the update channel,
\* with the dispatcher, or written only after that return.
C17_CommandsAfterResponse ==
  /\ [][\A sid \in SessionIds :
          (cmdTask'[sid] = "await" /\ cmdTask[sid] # "await") =>
             new_session_response[sid] = "returned"]_vars
  /\ [](\A sid \in SessionIds :
          (\/ \E i \in DOMAIN rx : CommandsUpdateOf(rx[i], sid)
           \/ CommandsUpdateOf(disp.notif, sid)
           \/ cmdTask[sid] \in {"await", "done"})
          => new_session_response[sid] = "returned")

\* The update of a session has been written to the connection and its ack
\* fulfilled, while the update of the other session is still queued.
C17_Witness ==
  \E sid \in SessionIds, other \in SessionIds :
     /\ cmdTask[sid] = "await"
     /\ ack[sid] = "done"
     /\ written >= 1
     /\ new_session_response[sid] = "returned"
     /\ \E i \in DOMAIN rx : CommandsUpdateOf(rx[i], other)

(***************************************************************************)
(* Claims about set_session_mode and set_session_model.                    *)
(***************************************************************************)
PresetOf(call) == APPROVAL_PRESETS[find_preset_by_mode_id(call.mode_id)]

\* The op of a call that reads the session in this step, the call whose
\* submit completes in this step, the call that updates the state in it.
CallBuilt(c) == c \in ctxCalls' \ ctxCalls /\ c.pc = "built"
CallSubmitted(c) == c \in ctxCalls' \ ctxCalls /\ c.pc = "submitted"
CallCommitted(c) == c \in ctxCalls \ ctxCalls' /\ c.pc = "submitted"

\* C18: the override that set_session_mode builds and submits carries the
\* preset's approval and sandbox and the model and effort the addressed
\* session has when the call reads it; the override of set_session_model
\* carries the validated model and effort and that session's approval and
\* sandbox; the op handed to the backend is the op built; the state update
\* of a successful set_session_mode changes only current_approval,
\* current_sandbox and current_mode of the addressed session, that of
\* set_session_model only current_model and current_effort; no step of
\* either call changes another session or the set of sessions.
C18_FrameEffect ==
  [][\A c \in ctxCalls \cup ctxCalls' :
       /\ CallBuilt(c) =>
            /\ sessions' = sessions
            /\ c.op.session_id = c.session_id
            /\ c.kind = "mode" =>
                 /\ c.op.model = sessions[c.session_id].current_model
                 /\ c.op.effort = sessions[c.session_id].current_effort
                 /\ c.op.approval = PresetOf(c).approval
                 /\ c.op.sandbox = PresetOf(c).sandbox
            /\ c.kind = "model" =>
                 /\ c.op.approval = sessions[c.session_id].current_approval
                 /\ c.op.sandbox = sessions[c.session_id].current_sandbox
                 /\ c.op.model = c.model_ctx.model
                 /\ c.op.effort = c.model_ctx.effort
       /\ CallSubmitted(c) =>
            /\ sessions' = sessions
            /\ lastOverride' = c.op
            /\ \E b \in ctxCalls \ ctxCalls' : b.pc = "built" /\ b.op = c.op
       /\ CallCommitted(c) =>
            /\ DOMAIN sessions' = DOMAIN sessions
            /\ \A k \in DOMAIN sessions \ {c.session_id} : sessions'[k] = sessions[k]
            /\ sessions'[c.session_id].fs_session_id = sessions[c.session_id].fs_session_id
            /\ c.kind = "mode" =>
                 sessions'[c.session_id] =
                   [sessions[c.session_id] EXCEPT
                      !.current_approval = PresetOf(c).approval,
                      !.current_sandbox = PresetOf(c).sandbox,
                      !.current_mode = c.mode_id]
            /\ c.kind = "model" =>
                 sessions'[c.session_id] =
                   [sessions[c.session_id] EXCEPT
                      !.current_model = c.model_ctx.model,
                      !.current_effort = c.model_ctx.effort]]_vars

\* A mode change and then a model change have been applied to s1, the
\* last override is the model change's, and s2 is as it was created.
C18_Witness ==
  /\ DOMAIN sessions = SessionIds
  /\ ctxCalls = {}
  /\ sessions["s1"].current_mode = "read-only"
  /\ sessions["s1"].current_model = "acme@m1"
  /\ lastOverride = [session_id |-> "s1", approval |-> "on-request",
                     sandbox |-> "read-only", model |-> "acme@m1",
                     effort |-> "high"]
  /\ sessions["s2"].current_model = ConfigModel.model
  /\ sessions["s2"].current_mode = "auto"

(***************************************************************************)
(* Claims about Error and StreamError events.                              *)
(***************************************************************************)
\* The task serving the prompt takes an Error or StreamError event that
\* carries the submit id, in the main loop or in the command loop.
OwnErrorTaken ==
  /\ EventTaken
  /\ Head(events).id = p.submit_id
  /\ Head(events).kind \in {"Error", "StreamError"}

\* C19: while the update channel is open, taking an Error or StreamError
\* event of the prompt enqueues exactly one update, the chunk of the message
\* followed by a blank line, and the task goes back to the loop it took the
\* event in once the chunk is acknowledged: the event does not end the
\* prompt, in the main loop and in the loop of /compact and /review alike.
C19_ErrorsKeepLooping ==
  [][(OwnErrorTaken /\ disp.pc # "stopped") =>
        /\ sent' = sent + 1
        /\ rx' = Append(rx, [n |-> sent + 1, from |-> PromptTask,
                             session_id |-> p.session_id,
                             update |-> "chunk:<message>\n\n"])
        /\ p'.pc = "ack"
        /\ p'.cont = p.pc
        /\ p'.result = "none"]_vars

(***************************************************************************)
(* Specification SpecReason: a prompt whose backend streams reasoning,     *)
(* with the text of every event and of every thought chunk.                *)
(***************************************************************************)
DeltaTexts == {<<"a", "b">>, <<"a">>, <<" ">>}
FinalTexts == {<<"a", "b">>, <<" ">>}

ReasonPromptStart ==
  /\ prompt_start(PromptSession, "input")
  /\ UNCHANGED <<extVars, storeVars, bridgeVars, disp, fileLogVars, taskVars>>

\* The history of the deltas is kept with the step that takes the event.
ReasonNextEvent ==
  /\ reasoning_next_event
  /\ reasonCase' =
       IF events = << >> \/ Head(events).id # p.submit_id THEN reasonCase
       ELSE IF Head(events).kind \in ReasoningDeltaKinds
       THEN [reasonCase EXCEPT !.deltas = @ \o Head(events).text]
       ELSE IF Head(events).kind \in ReasoningFinalKinds
       THEN [deltas |-> << >>,
             text |-> IF /\ Head(events).text = reasonCase.deltas
                         /\ ~is_blank(Head(events).text)
                      THEN Head(events).text ELSE reasonCase.text]
       ELSE reasonCase
  /\ UNCHANGED <<toolVars, editVars, ctxVars, borrowVars, unitVars, serveVars, storeVars,
                 bridgeVars, disp, fileLogVars, taskVars>>

BackendEmitReasoning ==
  \E id \in EventIds, kind \in ReasoningKinds, text \in DeltaTexts \cup FinalTexts :
     /\ kind \in ReasoningDeltaKinds => text \in DeltaTexts
     /\ kind \in ReasoningFinalKinds => text \in FinalTexts
     /\ kind = "AgentReasoningSectionBreak" => text = <<" ">>
     /\ EmitReasoning(id, kind, text)
     /\ UNCHANGED <<extVars, storeVars, bridgeVars, chanVars, fileLogVars, taskVars,
                    notifVars>>

NextReason ==
  \/ NewPromptSession
  \/ ReasonPromptStart
  \/ ReasonNextEvent
  \/ PromptAck
  \/ Cancel
  \/ BackendEmitReasoning
  \/ BackendEmitTerminal
  \/ DispatchUpdate
  \/ NotificationReturns

SpecReason == InitPrompt /\ [][NextReason]_vars

(***************************************************************************)
(* Claims about reasoning text.                                            *)
(***************************************************************************)
\* The number of places at which text t occurs in chunk c, and in all
\* chunks of a sequence.
Occurrences(t, c) ==
  Cardinality({i \in 1..Len(c) : /\ i + Len(t) - 1 <= Len(c)
                                 /\ SubSeq(c, i, i + Len(t) - 1) = t})

RECURSIVE TotalOccurrences(_, _)
TotalOccurrences(t, chunks) ==
  IF chunks = << >> THEN 0
  ELSE Occurrences(t, Head(chunks)) + TotalOccurrences(t, Tail(chunks))

\* C20: when the deltas of the prompt were followed by a final reasoning
\* event (AgentReasoning or AgentReasoningRawContent) with the same text, and
\* the prompt has returned its stop reason, that text occurs exactly once
\* in the thought chunks of the prompt, the flush after the loop included.
C20_ReasoningOnce ==
  (/\ p.pc = "done"
   /\ p.result \in StopReasons
   /\ reasonCase.text # << >>)
  => TotalOccurrences(reasonCase.text, thoughts) = 1

(***************************************************************************)
(* Specification SpecAgg: a ReasoningAggregator under any sequence of      *)
(* calls of its methods (events.rs 374-447), as the unit tests of          *)
(* agent/tests/reasoning_test.rs make them.                                *)
(***************************************************************************)
AggDeltas == {<<"a">>, <<" ">>, <<"b", " ">>}
AggFinals == {<<"a">>, <<" ">>, <<"a", "b">>}

NotAggVars ==
  <<storeVars, bridgeVars, chanVars, fileLogVars, taskVars, notifVars, promptVars,
    toolVars, editVars, ctxVars, borrowVars, thoughts, reasonCase, readLog,
    loops, overrideResponse, messageLog, pageLog, authLog, convLog, serveVars>>

AggAppendDelta ==
  \E delta \in AggDeltas :
     /\ aggLog.n < MaxAggCalls
     /\ reason' = append_delta(reason, delta)
     /\ aggLog' = [n |-> aggLog.n + 1,
                   hist |-> [aggLog.hist EXCEPT ![Len(aggLog.hist)] = @ \o delta],
                   before |-> aggLog.hist, op |-> "append_delta",
                   arg |-> SomeText(delta), out |-> NoText]
     /\ UNCHANGED NotAggVars

AggSectionBreak ==
  /\ aggLog.n < MaxAggCalls
  /\ reason' = section_break(reason)
  /\ aggLog' = [n |-> aggLog.n + 1, hist |-> Append(aggLog.hist, << >>),
                before |-> aggLog.hist, op |-> "section_break",
                arg |-> NoText, out |-> NoText]
  /\ UNCHANGED NotAggVars

AggTakeText ==
  /\ aggLog.n < MaxAggCalls
  /\ reason' = take_text(reason).agg
  /\ aggLog' = [n |-> aggLog.n + 1, hist |-> << << >> >>,
                before |-> aggLog.hist, op |-> "take_text",
                arg |-> NoText, out |-> take_text(reason).text]
  /\ UNCHANGED NotAggVars

AggChooseFinalText ==
  \E final_text \in {NoText} \cup {SomeText(t) : t \in AggFinals} :
     /\ aggLog.n < MaxAggCalls
     /\ reason' = choose_final_text(reason, final_text).agg
     /\ aggLog' = [n |-> aggLog.n + 1, hist |-> << << >> >>,
                   before |-> aggLog.hist, op |-> "choose_final_text",
                   arg |-> final_text,
                   out |-> choose_final_text(reason, final_text).text]
     /\ UNCHANGED NotAggVars

NextAgg ==
  \/ AggAppendDelta
  \/ AggSectionBreak
  \/ AggTakeText
  \/ AggChooseFinalText

SpecAgg == InitPrompt /\ [][NextAgg]_vars

(***************************************************************************)
(* Claims about the ReasoningAggregator.                                   *)
(***************************************************************************)
RECURSIVE JoinSections(_)
JoinSections(secs) ==
  IF secs = << >> THEN << >>
  ELSE IF Len(secs) = 1 THEN secs[1]
  ELSE secs[1] \o <<"\n", "\n">> \o JoinSections(Tail(secs))

NotEmpty(t) == t # << >>

\* The texts appended between the breaks, trimmed at the end, those that
\* are left empty dropped, joined by a blank line; None without any.
ExpectedText(hist) ==
  LET secs == SelectSeq([i \in DOMAIN hist |-> trim_end(hist[i])], NotEmpty)
  IN IF secs = << >> THEN NoText ELSE SomeText(JoinSections(secs))

TextOf(opt) == IF opt.some THEN opt.text ELSE << >>

FinalTextChosen ==
  aggLog.op = "choose_final_text" /\ aggLog.arg.some

\* C22 as stated: with agg the aggregated text, empty when nothing was
\* aggregated, choose_final_text(Some(t)) returns t when the trimmed length
\* of t is greater than that of agg, and agg otherwise.
C22_ChooseFinalText ==
  FinalTextChosen =>
     LET agg == TextOf(ExpectedText(aggLog.before))
         t == aggLog.arg.text
     IN TextOf(aggLog.out) =
          IF Len(trim(t)) > Len(trim(agg)) THEN t ELSE agg

(***************************************************************************)
(* Specification SpecRead: read_text_file calls of the MCP server on       *)
(* files of a few lines, the bridge answering from the client or, when the *)
(* client fails, from the local disk.                                      *)
(***************************************************************************)
LineTexts == {<< >>, <<"x">>}
FileContents == SeqsUpTo(LineTexts, MaxFileLines)
LineArgs == {NoneU32} \cup {SomeU32(n) : n \in 0..MaxFileLines}
LimitArgs == {NoneU32} \cup {SomeU32(n) : n \in 0..MaxReadLimit}
ClientAnswers == {"ok", "ok_terminated", "error"}

NotReadVars ==
  <<storeVars, bridgeVars, chanVars, fileLogVars, taskVars, notifVars, promptVars,
    toolVars, editVars, ctxVars, borrowVars, reasonVars, aggLog, loops,
    overrideResponse, messageLog, pageLog, authLog, convLog, serveVars>>

ReadTextFile ==
  \E lines \in FileContents, line \in LineArgs, limit \in LimitArgs,
     client \in ClientAnswers :
     /\ readLog' = [op |-> "read_text_file", file |-> lines, line |-> line,
                    limit |-> limit, via |-> client]
                   @@ read_text_file(lines, line, limit, client)
     /\ UNCHANGED NotReadVars

NextRead == ReadTextFile

SpecRead == InitPrompt /\ [][NextRead]_vars

\* The lines of the file from line L on.
LinesFrom(lines, L) == SubSeq(lines, L, Len(lines))

\* The lines of a text: its segments without their terminators.
LinesOf(text) ==
  LET segments == split_inclusive(text, << >>)
  IN [i \in DOMAIN segments |->
        IF segments[i][Len(segments[i])] = "\n"
        THEN SubSeq(segments[i], 1, Len(segments[i]) - 1)
        ELSE segments[i]]

PagedHint(L, N) ==
  "<file-read-info>Read lines " \o ToString(L) \o "-" \o ToString(L + N - 1)
  \o " (showing up to " \o ToString(N) \o " lines) Continue with line="
  \o ToString(L + N) \o " limit=" \o ToString(N) \o ".</file-read-info>"

PagedRead ==
  /\ readLog.op = "read_text_file"
  /\ readLog.line.some /\ readLog.line.v >= 1
  /\ readLog.limit.some /\ readLog.limit.v >= 1

\* C23: read_text_file(path, line=L, limit=N) on a file with more than N
\* lines from line L on, the N lines fitting in the byte cap, returns
\* exactly the lines L..L+N-1 followed by the hint "Read lines L-(L+N-1)
\* (showing up to N lines) Continue with line=L+N limit=N.", with
\* lines_returned = N, end_line = L+N-1, truncated and next_line = L+N;
\* when at most N lines remain, truncated is false and neither hint nor
\* next_line is present.
C23_PagedRead ==
  PagedRead =>
     LET L == readLog.line.v
         N == readLog.limit.v
         rest == LinesFrom(readLog.file, L)
         meta == readLog.meta
     IN IF Len(rest) > N
        THEN /\ \E body \in {SubSeq(readLog.text, 1, k) : k \in 0..Len(readLog.text)} :
                  /\ readLog.text = body \o <<"\n", "\n", PagedHint(L, N)>>
                  /\ LinesOf(body) = SubSeq(rest, 1, N)
             /\ meta.lines_returned = N
             /\ meta.end_line = L + N - 1
             /\ meta.truncated
             /\ meta.next_line = SomeU32(L + N)
        ELSE /\ ~meta.truncated
             /\ ~readLog.hint.some
             /\ ~meta.next_line.some

(***************************************************************************)
(* Specification SpecServe: serve_loop of the MCP server taking tools/call *)
(* requests for one path, the bridge answering, failing or answering after *)
(* the server's 5 s wait.                                                  *)
(***************************************************************************)
\* The id of the next request: the backend numbers its requests upward.
NextRequestId == mcpCalls + 1
ServeInstructions ==
  {[old_text |-> <<"a">>, new_text |-> <<"b">>, replace_all |-> FALSE],
   [old_text |-> << >>, new_text |-> <<"a">>, replace_all |-> FALSE]}
RejectReasons == {"missing tool call arguments", "invalid arguments", "unknown tool"}
WriteOutcomes == {"ok", "error", "timeout"}

NotServeVars ==
  <<storeVars, bridgeVars, chanVars, fileLogVars, taskVars, notifVars, promptVars,
    toolVars, ctxVars, borrowVars, reasonVars, unitVars>>

ServeEditTextFile ==
  \E edit \in ServeInstructions, read_ok \in BOOLEAN, write \in WriteOutcomes :
     /\ edit_text_file(edit.old_text, edit.new_text, read_ok, write = "ok")
     /\ serve_tools_call(NextRequestId, write = "timeout")
     /\ UNCHANGED NotServeVars

ServeMultiEditTextFile ==
  \E edits \in SeqsUpTo(ServeInstructions, MaxEdits),
     read_ok \in BOOLEAN, write \in WriteOutcomes :
     /\ multi_edit_text_file(edits, read_ok, write = "ok")
     /\ serve_tools_call(NextRequestId, write = "timeout")
     /\ UNCHANGED NotServeVars

ServeWriteTextFile ==
  \E content \in WriteContents, write \in WriteOutcomes :
     /\ write_text_file(content, write = "ok")
     /\ serve_tools_call(NextRequestId, write = "timeout")
     /\ UNCHANGED NotServeVars

ServeReadTextFile ==
  \E read_ok \in BOOLEAN :
     /\ read_text_file_call(read_ok)
     /\ serve_tools_call(NextRequestId, FALSE)
     /\ UNCHANGED NotServeVars

ServeRejected ==
  \E why \in RejectReasons :
     /\ rejected_tool_call(why)
     /\ serve_tools_call(NextRequestId, FALSE)
     /\ UNCHANGED NotServeVars

\* mcp_server.rs 77: a line that is no JSON ends serve_loop with the error.
ServeMalformedLine ==
  /\ mcpRunning
  /\ mcpRunning' = FALSE
  /\ UNCHANGED <<editVars, mcpRequests, mcpStdout, inFlight>>
  /\ UNCHANGED NotServeVars

\* bridge.rs 297-313, main.rs 85-97: the write of a request the server no
\* longer waits for reaches the client, or the local disk.
BridgeLateWrite ==
  /\ inFlight # << >>
  /\ mcpFile' = Head(inFlight)
  /\ inFlight' = Tail(inFlight)
  /\ UNCHANGED <<staged_edits, mcpCalls, lastEdit, mcpRequests, mcpStdout, mcpRunning>>
  /\ UNCHANGED NotServeVars

\* bridge.rs 297-313, 339-351: the client and the local write both fail.
BridgeLateFailure ==
  /\ inFlight # << >>
  /\ inFlight' = Tail(inFlight)
  /\ UNCHANGED <<editVars, mcpRequests, mcpStdout, mcpRunning>>
  /\ UNCHANGED NotServeVars

NextServe ==
  \/ ServeEditTextFile
  \/ ServeMultiEditTextFile
  \/ ServeWriteTextFile
  \/ ServeReadTextFile
  \/ ServeRejected
  \/ ServeMalformedLine
  \/ BridgeLateWrite
  \/ BridgeLateFailure

SpecServe == InitEditSpec /\ [][NextServe]_vars

ErrorResponse(id) == [id |-> id, kind |-> "error", code |-> -32001]

FailuresAnswered ==
  /\ Len(mcpStdout) = Len(mcpRequests)
  /\ \A i \in DOMAIN mcpRequests :
        ~ToolOk(mcpRequests[i].result) => mcpStdout[i] = ErrorResponse(mcpRequests[i].id)

\* C24: every tools/call request that fails (unknown tool, bad arguments,
\* failed edit, bridge error or bridge timeout) is answered with exactly one
\* JSON-RPC error response that carries the id of the request and the code
\* -32001, and the server goes on serving: the step that takes the request
\* leaves the loop running.
C24_FailuresAnswered ==
  /\ []FailuresAnswered
  /\ [][mcpRequests' # mcpRequests => mcpRunning']_vars

\* A call for an unknown tool answered with the error, then a call that
\* succeeds served.
C24_Witness ==
  /\ Len(mcpRequests) = 2
  /\ mcpRequests[1].result = "unknown tool"
  /\ mcpRequests[2].result = "ok"
  /\ mcpStdout = <<ErrorResponse(1), [id |-> 2, kind |-> "result", code |-> 0]>>
  /\ mcpRunning

\* The file has the content b, or both are missing.
SameFile(a, b) ==
  IF a = Missing THEN b = Missing
  ELSE IF b = Missing THEN FALSE
  ELSE a = b

\* C28: a call of edit_text_file, multi_edit_text_file or write_text_file
\* that returns an error, the bridge timeout included, has not modified and
\* will not modify the file: the file changes only in the turn of a call
\* that succeeds, and the staged content of the path is the content of the
\* file.
C28_ErrorsWriteNothing ==
  /\ [](staged_edits # NoStaged => SameFile(mcpFile, staged_edits))
  /\ [][~SameFile(mcpFile, mcpFile') =>
          /\ Len(mcpRequests') = Len(mcpRequests) + 1
          /\ mcpRequests'[Len(mcpRequests')].result = "ok"]_vars

(***************************************************************************)
(* Specification SpecSlash: prompts whose first block is a slash command   *)
(* (prompt.rs 31-50).                                                      *)
(***************************************************************************)
InlineCommands == {"new", "init", "status", "model", "approvals", "quit"}
BackgroundCommands == {"compact", "review"}

\* CodexAgent::handle_slash_command(session_id, name) as prompt.rs 38 calls
\* it: Some(op) for a command forwarded to the backend, None for a command
\* handled inline and for a name that is no command ("not handled").
handle_slash_command(name) ==
  IF name \in BackgroundCommands THEN "Some(op)" ELSE "None"

command_class(name) ==
  IF name \in InlineCommands THEN "inline"
  ELSE IF name \in BackgroundCommands THEN "background"
  ELSE "unknown"

\* prompt.rs 29-95 for a first block "/name": get_conversation, then the
\* match on handle_slash_command: the op is submitted in place of
\* UserInput, or the prompt returns EndTurn.  An inline command has sent
\* its message before it returns (commands.rs 161-167).
prompt_slash(sid, name) ==
  /\ p.pc = "idle"
  /\ LET base == [IdlePrompt EXCEPT !.kind = command_class(name), !.session_id = sid]
     IN IF sid \notin DOMAIN sessions
        THEN /\ p' = Fail(base)
             /\ UNCHANGED <<rx, sent, ack, backend>>
        ELSE IF handle_slash_command(name) = "Some(op)"
        THEN /\ IF backend.closed
                THEN /\ p' = Fail(base)
                     /\ UNCHANGED backend
                ELSE /\ p' = [base EXCEPT !.pc = "loop", !.submit_id = SubmitId]
                     /\ backend' = [backend EXCEPT !.interrupted = FALSE]
             /\ UNCHANGED <<rx, sent, ack>>
        ELSE IF name \in InlineCommands
        THEN /\ send_session_update([base EXCEPT !.stop_reason = "EndTurn"],
                                    "chunk:command", "done")
             /\ UNCHANGED backend
        ELSE /\ p' = [base EXCEPT !.pc = "done", !.stop_reason = "EndTurn",
                                  !.result = "EndTurn"]
             /\ UNCHANGED <<rx, sent, ack, backend>>
  /\ UNCHANGED <<written, client_rx, response, events, emitted, approvals>>

FirstBlocks == {"text", "/status", "/compact", "/foo"}

SlashPromptStart ==
  \E first \in FirstBlocks :
     /\ IF first = "text" THEN prompt_start(PromptSession, "input")
        ELSE prompt_slash(PromptSession,
                          CASE first = "/status" -> "status"
                            [] first = "/compact" -> "compact"
                            [] OTHER -> "foo")
     /\ UNCHANGED <<extVars, storeVars, bridgeVars, disp, fileLogVars, taskVars>>

NextSlash ==
  \/ NewPromptSession
  \/ SlashPromptStart
  \/ PromptNextEvent
  \/ PromptAck
  \/ BackendEmit
  \/ BackendCloses
  \/ DispatchUpdate
  \/ NotificationReturns

SpecSlash == InitPrompt /\ [][NextSlash]_vars

\* C25: a prompt whose first block is "/" and a name that is no command is
\* processed as any prompt, its content submitted as UserInput and the event
\* loop run: it does not return before a submission was made; an inline
\* command returns EndTurn without a submission.
C25_UnknownCommandFallsThrough ==
  /\ (p.kind = "unknown" /\ p.pc = "done" /\ p.result # "error")
        => p.submit_id = SubmitId
  /\ (p.kind = "inline" /\ p.pc = "done" /\ p.result # "error")
        => (p.submit_id = NoneId /\ p.result = "EndTurn")

(***************************************************************************)
(* Specification SpecMulti: the dispatcher between two sessions: a prompt  *)
(* of one session streaming its updates while the bridge carries file      *)
(* requests of the other to the client.                                    *)
(***************************************************************************)
NextMulti ==
  \/ NewSession
  \/ BridgeRequest
  \/ BridgeFallback
  \/ DispatchRead
  \/ DispatchWrite
  \/ ClientFileAnswer
  \/ PromptStart
  \/ PromptNextEvent
  \/ CommandNextEvent
  \/ PromptAck
  \/ BackendEmitUpdates
  \/ DispatchUpdate
  \/ NotificationReturns

SpecMulti == InitPrompt /\ [][NextMulti]_vars

\* The dispatcher waits for the client's answer to a read or write of
\* session sid.
AwaitsClientFor(sid) ==
  /\ disp.pc \in {"await_read", "await_write"}
  /\ disp.fwd.session_id = sid

\* C27: a client round-trip of one session that is still unanswered does
\* not stop the dispatcher from serving another session: while the
\* dispatcher's request for session A waits for the client, an update that
\* the prompt of session B has enqueued can be taken up and written.
C27_DispatcherServesOthers ==
  \A A \in SessionIds :
     (/\ AwaitsClientFor(A)
      /\ rx # << >>
      /\ Head(rx).session_id # A
      /\ Head(rx).from = PromptTask)
        => ENABLED DispatchNotification

(***************************************************************************)
(* Specification SpecLoops: two prompts active on one session.             *)
(***************************************************************************)
LoopEventKinds == {"AgentMessage", "TaskComplete", "TurnAborted"}

NotLoopVars ==
  <<storeVars, bridgeVars, chanVars, fileLogVars, taskVars, notifVars,
    backend, p, approvals, toolVars, editVars, ctxVars, borrowVars, reasonVars,
    aggLog, readLog, overrideResponse, messageLog, pageLog, authLog, convLog, serveVars>>

LoopStart ==
  \E i \in LoopIds, kind \in PromptKinds :
     /\ loop_start(i, kind)
     /\ UNCHANGED NotLoopVars

InputLoopNextEvent ==
  \E i \in LoopIds :
     /\ input_loop_next_event(i)
     /\ UNCHANGED NotLoopVars

CommandLoopNextEvent ==
  \E i \in LoopIds :
     /\ command_loop_next_event(i)
     /\ UNCHANGED NotLoopVars

LoopEmit ==
  \E i \in LoopIds, kind \in LoopEventKinds :
     /\ loop_emit(i, kind)
     /\ UNCHANGED NotLoopVars

NextLoops ==
  \/ LoopStart
  \/ InputLoopNextEvent
  \/ CommandLoopNextEvent
  \/ LoopEmit

SpecLoops == InitPrompt /\ [][NextLoops]_vars

\* C26: with two prompts active on one session, every event of a
\* submission is handled by the loop of the prompt that made it: no loop of
\* a prompt or of a command takes, and drops, an event of another active
\* prompt.
C26_EventsReachTheirPrompt ==
  \A i \in LoopIds : loops[i].lost = 0

\* The override op carries the approval, sandbox, model and effort that the
\* session has.
OverrideMatches(op, state) ==
  /\ op.approval = state.current_approval
  /\ op.sandbox = state.current_sandbox
  /\ op.model = state.current_model
  /\ op.effort = state.current_effort

\* C29: for any interleaving of concurrent set_session_mode and
\* set_session_model calls on a session, once the calls have completed the
\* last override the backend received carries the approval, sandbox and
\* model that the session has: an override built from a stale snapshot
\* never replaces another call's update at the backend.
C29_LastOverrideIsCurrent ==
  (ctxCalls = {} /\ lastOverride.session_id \in DOMAIN sessions)
     => OverrideMatches(lastOverride, sessions[lastOverride.session_id])

(***************************************************************************)
(* Specification of set_session_mode and set_session_model with their      *)
(* early returns: the calls of the session-store specification, each step  *)
(* recording the call that took it and what it returned.                   *)
(***************************************************************************)
OverrideModeIds == {"read-only", "bogus"}

NotOverrideVars ==
  <<bridgeVars, chanVars, fileLogVars, notifVars, promptVars, toolVars, editVars,
    reasonVars, aggLog, readLog, loops, messageLog, pageLog, authLog, convLog, serveVars>>

OverrideNewSession ==
  \E sid \in SessionIds, fsid \in FreshFsIds :
     /\ new_session(sid, fsid)
     /\ sessions_borrow' = insert_statement(sessions_borrow)
     /\ overrideResponse' = NoResponse
     /\ UNCHANGED <<ctxVars, NotOverrideVars>>

SetSessionMode ==
  \E sid \in SessionIds, mode_id \in OverrideModeIds :
     /\ set_session_mode(sid, mode_id)
     /\ UNCHANGED <<taskVars, NotOverrideVars>>

SetSessionModel ==
  \E sid \in SessionIds, model_id \in ModelIds :
     /\ set_session_model(sid, model_id)
     /\ UNCHANGED <<taskVars, NotOverrideVars>>

OverrideSubmitted ==
  \E call \in ctxCalls, ok \in BOOLEAN :
     /\ apply_context_override_submitted(call, ok)
     /\ UNCHANGED <<taskVars, NotOverrideVars>>

OverrideReturned ==
  \E call \in ctxCalls :
     /\ apply_context_override_returned(call)
     /\ UNCHANGED <<taskVars, NotOverrideVars>>

NextOverride ==
  \/ OverrideNewSession
  \/ SetSessionMode
  \/ SetSessionModel
  \/ OverrideSubmitted
  \/ OverrideReturned

SpecOverride == InitStoreSpec /\ [][NextOverride]_vars

\* The step's call was made with a mode id that is no preset's, a model id
\* that fails validation, or a session id that is not in the store.
BadOverrideRequest(r) ==
  \/ r.kind = "mode" /\ r.arg # "<none>" /\ find_preset_by_mode_id(r.arg) = 0
  \/ r.kind = "model" /\ r.arg # "<none>" /\ parse_and_validate_model(r.arg) = NoModel
  \/ r.kind \in {"mode", "model"} /\ r.arg # "<none>" /\ r.session_id \notin DOMAIN sessions

\* C30: a set_session_mode call with a mode id that is not a preset id, a
\* set_session_model call with a model id that fails validation, and either
\* call for a session id that is not in the store return invalid-params,
\* hand no override op to the backend and leave every session's state
\* unchanged; a call whose backend submit fails returns an error and leaves
\* every session's state unchanged as well.
C30_FailedCallsChangeNothing ==
  [][/\ BadOverrideRequest(overrideResponse')
        => /\ overrideResponse'.code = "invalid_params"
           /\ UNCHANGED <<sessions, turn_context, ctxVars>>
     /\ overrideResponse'.code = "invalid_params"
        => BadOverrideRequest(overrideResponse')
     /\ overrideResponse'.code = "internal_error"
        => UNCHANGED <<sessions, lastOverride>>]_vars

\* A session whose mode has been changed, the backend holding that
\* override, and a set_session_mode call for it just rejected for its mode
\* id.
C30_Witness ==
  /\ overrideResponse.code = "invalid_params"
  /\ overrideResponse.data = "invalid mode id"
  /\ overrideResponse.session_id \in DOMAIN sessions
  /\ lastOverride.session_id = overrideResponse.session_id
  /\ sessions[overrideResponse.session_id].current_mode = "read-only"

(***************************************************************************)
(* Specification SpecStop: the prompt specification together with the task *)
(* spawned by new_session, a second producer of the update channel, so     *)
(* that the dispatcher may stop on a write that is not the prompt's.  The  *)
(* backend stays open and emits the events that make the prompt send,     *)
(* ask for permission or return; the scheduling is that of SpecPromptFair. *)
(***************************************************************************)
StopKinds ==
  {"AgentMessageDelta", "AgentReasoningDelta", "ExecApprovalRequest",
   "ApplyPatchApprovalRequest", "TaskComplete"}

BackendEmitStop ==
  \E id \in EventIds, kind \in StopKinds :
     /\ Emit(id, kind)
     /\ UNCHANGED <<extVars, storeVars, bridgeVars, chanVars, fileLogVars, taskVars, notifVars>>

NextStop ==
  \/ NewPromptSession
  \/ CommandsTaskSend
  \/ CommandsTaskDone
  \/ PromptStart
  \/ PromptNextEvent
  \/ CommandNextEvent
  \/ PromptAck
  \/ PromptPermissionReply
  \/ BackendEmitStop
  \/ DispatchUpdate
  \/ NotificationReturns
  \/ DispatchPermission
  \/ PermissionReturns

SpecStop ==
  /\ InitPrompt
  /\ [][NextStop]_vars
  /\ WF_vars(PromptNextEvent)
  /\ WF_vars(PromptAck)
  /\ WF_vars(PromptPermissionReply)
  /\ WF_vars(DispatchUpdate)
  /\ WF_vars(NotificationReturns)
  /\ WF_vars(DispatchPermission)

(***************************************************************************)
(* Claims about the dispatcher's end and about permission requests.        *)
(***************************************************************************)
\* The prompt waits on an ack or on a permission reply that had not arrived
\* when its sender was dropped.
PromptWaitsInVain ==
  \/ p.pc = "ack" /\ ack[PromptTask] = "dropped"
  \/ p.pc = "perm" /\ response[PromptTask].state = "dropped"

\* Once the dispatcher has stopped, no ack of the prompt is pending, no
\* permission reply of the prompt is outstanding and both queues are gone.
StoppedLeavesNoWait ==
  disp.pc = "stopped" =>
     /\ ack[PromptTask] # "pending"
     /\ p.pc = "perm" => response[PromptTask].state # "empty"
     /\ rx = << >> /\ client_rx = << >>

\* With the dispatcher stopped, a prompt that waited for an ack or a reply
\* that was dropped ends with an error, and no step enqueues an update: a
\* prompt that goes on to send one ends with an error instead.
StoppedStepsFail ==
  disp.pc = "stopped" /\ p' # p =>
     /\ sent' = sent
     /\ p'.pc # "ack"
     /\ (p.pc = "ack" /\ ack[PromptTask] = "dropped") => p'.result = "error"
     /\ (p.pc = "perm" /\ response[PromptTask].state = "dropped") => p'.result = "error"
     /\ (p.pc \in {"loop", "cmd_loop"} /\ p'.pc = "done" /\ p'.result # "error")
           => Head(events).kind \in TerminalKinds /\ ~p.reason /\ p.pc = "loop"

\* C31: when the dispatcher loop has stopped, no prompt stays blocked: a
\* prompt waiting for a notification ack or a permission reply stops
\* waiting, its dropped ack or reply being an internal error of the prompt,
\* and every later attempt to send an update fails with an internal error
\* instead of enqueueing it.
C31_StoppedDispatcherFailsPrompts ==
  /\ []StoppedLeavesNoWait
  /\ [][StoppedStepsFail]_vars
  /\ (disp.pc = "stopped" /\ PromptWaitsInVain) ~> (p.pc = "done" /\ p.result = "error")

\* The dispatcher has stopped while the prompt waited for a permission
\* reply, and the prompt has ended with an error.
C31_Witness ==
  /\ disp.pc = "stopped"
  /\ p.pc = "done"
  /\ p.result = "error"
  /\ approvals.requests > approvals.ops
  /\ ~backend.closed

\* The permission requests of the prompt that have been sent and not yet
\* answered: those queued for the dispatcher and the one it has forwarded.
OutstandingPermissions ==
  Cardinality({i \in DOMAIN client_rx :
                 client_rx[i].kind = "RequestPermission" /\ client_rx[i].from = PromptTask})
  + (IF disp.pc = "await_perm" /\ disp.op.from = PromptTask THEN 1 ELSE 0)

\* The dispatcher has forwarded a permission request of the prompt to the
\* client and awaits the answer.
PermissionForwarded == disp.pc = "await_perm" /\ disp.op.from = PromptTask

\* No update of the prompt is queued, being written or unacknowledged.
PromptUpdatesWritten ==
  /\ \A i \in DOMAIN rx : rx[i].from # PromptTask
  /\ disp.notif.from # PromptTask
  /\ ack[PromptTask] # "pending"
  /\ p.lastN <= written

PermissionOrder ==
  /\ PermissionForwarded =>
        /\ p.pc = "perm"
        /\ response[PromptTask].state = "empty"
        /\ PromptUpdatesWritten
  /\ (p.pc = "perm" /\ disp.pc # "stopped") => PromptUpdatesWritten
  /\ OutstandingPermissions <= 1
  /\ OutstandingPermissions = 1 => p.pc = "perm"

\* C32: when a permission request of a prompt is forwarded to the client,
\* every update the prompt produced before has been written to the client;
\* while the prompt waits for the reply it enqueues no update and it leaves
\* the wait only when a reply (or the drop of its sender) has arrived; at
\* most one permission request of the prompt is outstanding.
C32_PermissionAfterUpdates ==
  /\ []PermissionOrder
  /\ [][p.pc = "perm" =>
          /\ sent' = sent \/ p'.pc = "perm"
          /\ p'.pc # "perm" => response[PromptTask].state # "empty"]_vars

\* A permission request forwarded after the prompt has had an update
\* written.
C32_Witness ==
  /\ PermissionForwarded
  /\ p.lastN > 0
  /\ written = p.lastN

(***************************************************************************)
(* Specification SpecMessages: the assistant messages of a turn.  The      *)
(* backend produces a message either as deltas followed by an AgentMessage *)
(* carrying the whole text, or as an AgentMessage alone; a turn may hold   *)
(* several messages.                                                       *)
(***************************************************************************)
MessageDeltas == {<<"a">>, <<"b">>}
MessageTexts == {<<"a">>, <<"b">>, <<"a", "b">>}
MessageKinds == {"AgentMessageDelta", "AgentMessage"}

\* The backend emits a message event with its text.
EmitMessage(id, kind, text) ==
  /\ ~backend.closed
  /\ p.pc \notin {"idle", "done"}
  /\ emitted < MaxEvents
  /\ Len(events) < MaxQueue
  /\ events' = Append(events, [id |-> id, kind |-> kind, call_id |-> emitted + 1,
                                text |-> text])
  /\ emitted' = emitted + 1
  /\ UNCHANGED <<backend, p, approvals>>

BackendEmitMessage ==
  \E id \in EventIds, kind \in MessageKinds, text \in MessageDeltas \cup MessageTexts :
     /\ kind = "AgentMessageDelta" => text \in MessageDeltas
     /\ (kind = "AgentMessage" /\ id = SubmitId /\ messageLog.stream # << >>)
           => text = messageLog.stream
     /\ EmitMessage(id, kind, text)
     /\ messageLog' =
          IF id # SubmitId THEN messageLog
          ELSE IF kind = "AgentMessageDelta"
          THEN [messageLog EXCEPT !.stream = @ \o text]
          ELSE [messageLog EXCEPT !.stream = << >>]
     /\ UNCHANGED <<toolVars, editVars, ctxVars, borrowVars, reasonVars, aggLog, readLog,
                    loops, overrideResponse, pageLog, authLog, convLog, serveVars, storeVars, bridgeVars, chanVars,
                    fileLogVars, taskVars, notifVars>>

\* The step that takes an event keeps the history of the message chunks: an
\* AgentMessage is delivered when the step enqueues its chunk or when the
\* delta chunks sent since the previous AgentMessage make up its text.
MessagesNextEvent ==
  /\ prompt_next_event
  /\ messageLog' =
       IF events = << >> \/ Head(events).id # p.submit_id THEN messageLog
       ELSE IF Head(events).kind = "AgentMessageDelta"
       THEN [messageLog EXCEPT !.chunks = @ \o Head(events).text]
       ELSE IF Head(events).kind = "AgentMessage"
       THEN [messageLog EXCEPT
               !.chunks = << >>,
               !.taken = @ + 1,
               !.lost = @ + (IF \/ sent' = sent + 1
                                \/ p'.result = "error"
                                \/ messageLog.chunks = Head(events).text
                             THEN 0 ELSE 1)]
       ELSE messageLog
  /\ UNCHANGED <<toolVars, editVars, ctxVars, borrowVars, reasonVars, aggLog, readLog,
                 loops, overrideResponse, pageLog, authLog, convLog, serveVars, storeVars, bridgeVars, disp,
                 fileLogVars, taskVars>>

NextMessages ==
  \/ NewPromptSession
  \/ ReasonPromptStart
  \/ MessagesNextEvent
  \/ PromptAck
  \/ BackendEmitMessage
  \/ BackendEmitTerminal
  \/ DispatchUpdate
  \/ NotificationReturns

SpecMessages == InitPrompt /\ [][NextMessages]_vars

\* C33: every AgentMessage event with the prompt's submit id that the
\* prompt has taken had its text delivered, as that one chunk or as the
\* delta chunks that streamed it; this holds also for a message that comes
\* as an AgentMessage alone after an earlier message of the prompt was
\* streamed with deltas.
C33_MessagesDelivered == messageLog.lost = 0

(***************************************************************************)
(* Specification SpecPaging: a reader that follows the paging metadata of  *)
(* read_text_file, continuing every truncated response with line =         *)
(* next_line.  The client answers each read with the requested lines, each *)
(* with its terminator.  Lines are up to two characters long and the byte  *)
(* cap is PageCap, so that a response can be cut inside a line and at a    *)
(* line boundary.                                                          *)
(***************************************************************************)
PageLineTexts == {<< >>, <<"x">>, <<"x", "y">>}
PageFiles == SeqsUpTo(PageLineTexts, MaxFileLines) \ {<< >>}
PageLimits == {NoneU32} \cup {SomeU32(n) : n \in 1..MaxReadLimit}

NotPageVars ==
  <<storeVars, bridgeVars, chanVars, fileLogVars, taskVars, notifVars, promptVars,
    toolVars, editVars, ctxVars, borrowVars, reasonVars, aggLog, readLog, loops,
    overrideResponse, messageLog, authLog, convLog, serveVars>>

\* The reader's state after a response.
next_page(file, limit, result) ==
  [state |-> IF result.meta.truncated THEN "paging" ELSE "done",
   file |-> file, limit |-> limit, line |-> result.meta.next_line,
   got |-> pageLog.got \o file_text(result), pages |-> pageLog.pages + 1]

PagingStart ==
  \E file \in PageFiles, limit \in PageLimits :
     /\ pageLog.state = "idle"
     /\ pageLog' = next_page(file, limit,
                       read_text_file_capped(file, SomeU32(1), limit,
                                             "ok_terminated", PageCap))
     /\ UNCHANGED NotPageVars

PagingContinue ==
  /\ pageLog.state = "paging"
  /\ pageLog' = next_page(pageLog.file, pageLog.limit,
                    read_text_file_capped(pageLog.file, pageLog.line, pageLog.limit,
                                          "ok_terminated", PageCap))
  /\ UNCHANGED NotPageVars

NextPaging ==
  \/ PagingStart
  \/ PagingContinue

SpecPaging == InitPrompt /\ [][NextPaging]_vars

\* C34: when every truncated response has been continued with line =
\* next_line and a response that is not truncated has ended the reading,
\* the file texts returned make up the file: every line of it completely
\* and once, also when a response was cut by the byte cap inside a line or
\* at a line boundary.
C34_PagingReturnsTheFile ==
  pageLog.state = "done" => LinesOf(pageLog.got) = pageLog.file

\* C35: a bridge request whose session_id is neither the ACP id nor the
\* fs_session_id of a session in the store performs no file I/O: no step
\* forwards it to the ACP client and no step reads or writes local disk for
\* it.
C35_UnknownSessionNoIO ==
  [][\A t \in BridgeTasks :
        (bridge[t].pc = "await" /\ OwnerOf(bridge[t].req.session_id) = NoneId)
           => /\ disk' # disk => disk'.n # bridge[t].req.n
              /\ (disp' # disp /\ disp'.pc \in {"await_read", "await_write"})
                    => disp'.op.n # bridge[t].req.n]_vars

\* The staged content that write_text_file prefers to its argument.
PrefersStaged(call) ==
  /\ call.staged_before # NoStaged
  /\ (call.content = << >> \/ call.content = call.staged_before)

\* C37: write_text_file sends the staged content to the bridge, and says
\* that staged edits were applied, when staged content exists and the
\* content given is empty or equal to it, and the content given otherwise;
\* after a successful write the staged content is the content sent, after a
\* failed one it is what it was.
C37_WritePrefersStaged ==
  lastEdit.tool = "write_text_file" =>
    /\ lastEdit.writes =
         <<IF PrefersStaged(lastEdit) THEN lastEdit.staged_before ELSE lastEdit.content>>
    /\ lastEdit.result = "ok" =>
         /\ staged_edits = lastEdit.writes[1]
         /\ lastEdit.text = IF PrefersStaged(lastEdit)
                            THEN "write completed (applied staged edits)"
                            ELSE "write completed"
    /\ lastEdit.result # "ok" => staged_edits = lastEdit.staged_before

C37_Witness ==
  /\ lastEdit.tool = "write_text_file"
  /\ lastEdit.result = "ok"
  /\ lastEdit.content = << >>
  /\ lastEdit.staged_before # NoStaged
  /\ lastEdit.staged_before # << >>
  /\ staged_edits = lastEdit.staged_before
  /\ lastEdit.text = "write completed (applied staged edits)"

\* The error of the first instruction that cannot be applied to the
\* content produced by those before it, "" when every instruction can: an
\* empty old text, or an old text without an occurrence.
RECURSIVE FirstInstructionError(_, _)
FirstInstructionError(content, edits) ==
  IF edits = << >> THEN ""
  ELSE IF Head(edits).old_text = << >> THEN EmptyOldString
  ELSE IF find(content, Head(edits).old_text) = 0 THEN OldStringNotFound
  ELSE FirstInstructionError(ApplyOne(content, Head(edits)), Tail(edits))

\* C38: an edit call fails with the "does not appear in the file" error
\* exactly when the old text of some instruction, not empty, has no
\* occurrence in the content produced by the instructions before it; an
\* instruction whose old text occurs does not fail, also when its new text
\* is its old text, and replaces every occurrence with replace_all and the
\* first one without.
C38_NotFoundOnlyWhenAbsent ==
  EditServed =>
    /\ lastEdit.result = OldStringNotFound
         <=> FirstInstructionError(lastEdit.base, lastEdit.instructions) = OldStringNotFound
    /\ (FirstInstructionError(lastEdit.base, lastEdit.instructions) = ""
          /\ lastEdit.writes # << >>)
         => lastEdit.writes = <<AllApplied(lastEdit.base, lastEdit.instructions)>>

\* The client read of the bridge task has succeeded: the reply it waits for
\* came from the client with content.
ClientReadSucceeded(t) == response[t].state = "sent" /\ response[t].ok

\* A read awaiting its reply has been put to the ACP client: its op is in
\* the client-op channel or with the dispatcher.
ReadAsked ==
  \A t \in BridgeTasks :
     (bridge[t].pc = "await" /\ bridge[t].req.op = "read"
        /\ response[t].state = "empty")
       => \/ \E i \in 1..Len(client_rx) :
               client_rx[i].kind = "ReadTextFile" /\ client_rx[i].n = bridge[t].req.n
          \/ disp.op.kind = "ReadTextFile" /\ disp.op.n = bridge[t].req.n

\* The step that ends a bridge read: local disk is read only when the
\* client read has failed, and the content of a successful client read is
\* the content of the response.
ReadStep ==
  \A t \in BridgeTasks :
     (bridge[t].pc = "await" /\ bridge[t].req.op = "read" /\ bridge'[t].pc = "idle")
       => /\ response[t].state # "empty"
          /\ disk' # disk => ~ClientReadSucceeded(t)
          /\ ClientReadSucceeded(t)
               => /\ bridge'[t].resp.success
                  /\ bridge'[t].resp.content = response[t].content
                  /\ bridge'[t].resp.n = bridge[t].req.n

AuthProviders == {"openai", "acme", "oss", "custom_provider"}
AuthMethodIds == {"apikey", "chatgpt", "custom_provider", "acme", "bogus"}
AuthStates == {"none", "apikey", "chatgpt"}

NotAuthVars ==
  <<storeVars, bridgeVars, chanVars, fileLogVars, taskVars, notifVars, promptVars,
    toolVars, editVars, ctxVars, borrowVars, reasonVars, aggLog, readLog, loops,
    overrideResponse, messageLog, pageLog, convLog, serveVars>>

AuthLoadConfig ==
  /\ ~authLog.loaded
  /\ \E provider_id \in AuthProviders, registered \in BOOLEAN :
       authLog' = [NoAuthLog EXCEPT !.loaded = TRUE,
                                    !.model_provider_id = provider_id,
                                    !.registered = registered]
  /\ UNCHANGED NotAuthVars

AuthInitialize ==
  /\ authLog.loaded
  /\ authLog' = [authLog EXCEPT !.initialized = TRUE,
                                !.advertised = auth_methods(authLog.model_provider_id)]
  /\ UNCHANGED NotAuthVars

AuthAuthenticate ==
  /\ authLog.initialized
  /\ \E method \in AuthMethodIds, auth \in AuthStates :
       authLog' = [authLog EXCEPT
                     !.method = method, !.auth = auth,
                     !.result = authenticate(method, authLog.model_provider_id,
                                             authLog.registered, auth)]
  /\ UNCHANGED NotAuthVars

NextAuth ==
  \/ AuthLoadConfig
  \/ AuthInitialize
  \/ AuthAuthenticate

SpecAuth == InitPrompt /\ [][NextAuth]_vars

UnknownAuthMethod(result) ==
  result.code = "invalid_params" /\ result.data = "unknown auth method"

\* C36: authenticate treats exactly the ids that initialize advertised as
\* known: an advertised id, the configured custom provider's included, is
\* never rejected as an unknown auth method, and an id that was not
\* advertised is rejected with invalid-params.
C36_AdvertisedIdsAreHandled ==
  authLog.method # "<none>"
    => IF authLog.method \in authLog.advertised
       THEN ~UnknownAuthMethod(authLog.result)
       ELSE authLog.result.code = "invalid_params"

(***************************************************************************)
(* SpecNew: one session that is created, prompted, cancelled, switched to  *)
(* other modes and restarted with /new, under any base configuration.      *)
(***************************************************************************)
NotConvVars ==
  <<storeVars, bridgeVars, chanVars, fileLogVars, taskVars, notifVars, promptVars,
    toolVars, editVars, ctxVars, borrowVars, reasonVars, aggLog, readLog, loops,
    overrideResponse, messageLog, pageLog, authLog, serveVars>>

\* sessions.rs 25-57: new_session creates the first conversation, names
\* the session after it and caches it in the session state.
ConvNewSession ==
  /\ convLog.session_id = 0
  /\ convLog' = [NoConvLog EXCEPT
                   !.session_id = 1,
                   !.conversations = 1,
                   !.state = [conversation     |-> 1,
                              conversation_id  |-> 1,
                              current_approval |-> config.approval,
                              current_sandbox  |-> config.sandbox,
                              current_mode     |-> default_mode(config),
                              token_usage      |-> "None"]]
  /\ UNCHANGED NotConvVars

\* prompt.rs 29-96, 262-268: a prompt is submitted; the turn may bring a
\* TokenCount event with usage.
ConvPrompt ==
  /\ convLog.session_id # 0
  /\ \E usage \in {"None", "Some"} :
       convLog' = [submit_to_conversation(convLog, "prompt") EXCEPT
                     !.state.token_usage =
                        IF usage = "Some" THEN "Some" ELSE convLog.state.token_usage]
  /\ UNCHANGED NotConvVars

\* prompt.rs 333-342: cancel submits Op::Interrupt.
ConvCancel ==
  /\ convLog.session_id # 0
  /\ convLog' = submit_to_conversation(convLog, "cancel")
  /\ UNCHANGED NotConvVars

\* sessions.rs 144-171 with core.rs 190-201: set_session_mode submits the
\* override and stores the preset's policies and the mode.
ConvSetMode ==
  /\ convLog.session_id # 0
  /\ \E i \in DOMAIN APPROVAL_PRESETS :
       convLog' = [submit_to_conversation(convLog, "override") EXCEPT
                     !.state.current_approval = APPROVAL_PRESETS[i].approval,
                     !.state.current_sandbox = APPROVAL_PRESETS[i].sandbox,
                     !.state.current_mode = APPROVAL_PRESETS[i].id]
  /\ UNCHANGED NotConvVars

ConvSlashNew ==
  /\ convLog.session_id # 0
  /\ convLog.news < MaxNew
  /\ \E ok \in BOOLEAN : convLog' = slash_new(convLog, config, ok)
  /\ UNCHANGED NotConvVars

NextNew ==
  \/ ConvNewSession
  \/ ConvPrompt
  \/ ConvCancel
  \/ ConvSetMode
  \/ ConvSlashNew

SpecNew == InitStoreSpec /\ [][NextNew]_vars

\* The state a session has when it is created from the configuration.
IsReset(state, cfg) ==
  /\ state.current_approval = cfg.approval
  /\ state.current_sandbox = cfg.sandbox
  /\ state.current_mode = default_mode(cfg)
  /\ state.token_usage = "None"

\* C40: a successful /new leaves the session with the policies and the mode
\* of the configuration and without token usage, and every prompt, cancel
\* or override submitted after it goes to the conversation it created,
\* never to an earlier one.
C40_NewConversationTakesOver ==
  /\ [](convLog.submitted.news > 0
          => convLog.submitted.conversation = convLog.state.conversation_id)
  /\ [][convLog'.news # convLog.news => IsReset(convLog'.state, config)]_vars

====
